---- MODULE Spec2Model ----
(***************************************************************************)
(* Calendaria calendar engine: leap-year pattern utilities                 *)
(* (leap-year-utils.mjs) and the CalendariaCalendar data model             *)
(* (leap year, month length, moon phase queries).                          *)
(*                                                                         *)
(* Strings are modelled as sequences of one-character strings.  Optional   *)
(* object fields are modelled as record fields that may be absent.         *)
(***************************************************************************)
EXTENDS Integers, Sequences, FiniteSets, TLC

VARIABLES
  calendar,   \* the CalendariaCalendar instance the methods are called on
  pc,         \* "idle": no call in progress; "returned": a call has returned
  call,       \* the operation last invoked, with its arguments
  ret         \* the value the operation returned

vars == <<calendar, pc, call, ret>>

(***************************************************************************)
(* Bounds of the model.                                                    *)
(***************************************************************************)
MaxYear == 5
MaxIntervals == 3
MaxMonths == 2
MaxSpecNumber == 12
MaxOffset == 9
MaxPatternLen == 4
MaxCycleLength == 30
MaxNumPhases == 9
MaxMoonCycle == 8
MaxAdjust == 12
MaxDaysSince == 10
GregMaxYear == 2024
GregMaxYearBefore == 801

Years == -MaxYear..MaxYear
GregYears == -GregMaxYearBefore..GregMaxYear

(***************************************************************************)
(* JavaScript primitives.                                                  *)
(***************************************************************************)
\* a % b of JavaScript for b > 0: the result takes the sign of the dividend
\* (-0 === 0, so a negative multiple gives 0).
JsRem(a, b) == IF a >= 0 THEN a % b ELSE -((-a) % b)

Max(a, b) == IF a >= b THEN a ELSE b

Digits == {"0", "1", "2", "3", "4", "5", "6", "7", "8", "9"}

DigitVal(c) ==
  CASE c = "0" -> 0 [] c = "1" -> 1 [] c = "2" -> 2 [] c = "3" -> 3
    [] c = "4" -> 4 [] c = "5" -> 5 [] c = "6" -> 6 [] c = "7" -> 7
    [] c = "8" -> 8 [] c = "9" -> 9

DigitChar(d) ==
  CASE d = 0 -> "0" [] d = 1 -> "1" [] d = 2 -> "2" [] d = 3 -> "3"
    [] d = 4 -> "4" [] d = 5 -> "5" [] d = 6 -> "6" [] d = 7 -> "7"
    [] d = 8 -> "8" [] d = 9 -> "9"

\* String(n) for an integer n
RECURSIVE NatToStr(_)
NatToStr(n) == IF n < 10 THEN <<DigitChar(n)>>
               ELSE Append(NatToStr(n \div 10), DigitChar(n % 10))
NumToStr(n) == IF n < 0 THEN <<"-">> \o NatToStr(-n) ELSE NatToStr(n)

\* String.prototype.trim (the only white space of the alphabet is " ")
RECURSIVE TrimStart(_)
TrimStart(s) == IF s # <<>> /\ Head(s) = " " THEN TrimStart(Tail(s)) ELSE s
RECURSIVE TrimEnd(_)
TrimEnd(s) == IF s # <<>> /\ s[Len(s)] = " "
              THEN TrimEnd(SubSeq(s, 1, Len(s) - 1)) ELSE s
Trim(s) == TrimEnd(TrimStart(s))

\* String.prototype.includes for a one-character needle
Includes(s, c) == \E i \in 1..Len(s) : s[i] = c

\* str.replace(/[!+]/g, '')
IsNotMark(c) == c \notin {"!", "+"}
StripMarks(s) == SelectSeq(s, IsNotMark)

\* String.prototype.split(','): always at least one segment
RECURSIVE SplitAcc(_, _, _)
SplitAcc(s, cur, acc) ==
  IF s = <<>> THEN Append(acc, cur)
  ELSE IF Head(s) = "," THEN SplitAcc(Tail(s), <<>>, Append(acc, cur))
  ELSE SplitAcc(Tail(s), Append(cur, Head(s)), acc)
Split(s) == SplitAcc(s, <<>>, <<>>)

\* parseInt(s, 10): leading white space is skipped, an optional sign is
\* read, then the longest prefix of digits; no digit gives NaN.
RECURSIVE DigitPrefixVal(_, _)
DigitPrefixVal(s, acc) ==
  IF s # <<>> /\ Head(s) \in Digits
  THEN DigitPrefixVal(Tail(s), 10 * acc + DigitVal(Head(s)))
  ELSE acc
ParseInt(s) ==
  LET t == TrimStart(s)
      neg == t # <<>> /\ Head(t) = "-"
      u == IF t # <<>> /\ Head(t) \in {"-", "+"} THEN Tail(t) ELSE t
  IN IF u = <<>> \/ Head(u) \notin Digits
     THEN [nan |-> TRUE, val |-> 0]
     ELSE [nan |-> FALSE,
           val |-> IF neg THEN -DigitPrefixVal(u, 0) ELSE DigitPrefixVal(u, 0)]

\* x || d for a number x: NaN and 0 are falsy
OrDefault(p, d) == IF p.nan \/ p.val = 0 THEN d ELSE p.val

(***************************************************************************)
(* leap-year-utils.mjs                                                     *)
(***************************************************************************)
\* parseInterval with the offset reduced by a single remainder
parseInterval_SingleRemainder(intervalStr, offset) ==
  LET str == Trim(intervalStr)
      interval == Max(1, OrDefault(ParseInt(StripMarks(str)), 1))
  IN [interval |-> interval, subtracts |-> Includes(str, "!"),
      offset |-> IF interval = 1 \/ Includes(str, "+") THEN 0
                 ELSE JsRem(interval + offset, interval)]

parseInterval(intervalStr, offset) ==
  LET str == Trim(intervalStr)
      subtracts == Includes(str, "!")
      ignoresOffset == Includes(str, "+")
      interval == Max(1, OrDefault(ParseInt(StripMarks(str)), 1))
      normalizedOffset ==
        IF interval = 1 \/ ignoresOffset THEN 0
        ELSE JsRem(JsRem(interval + offset, interval) + interval, interval)
  IN [interval |-> interval, subtracts |-> subtracts, offset |-> normalizedOffset]

IsNonEmpty(s) == Len(s) > 0

\* A JavaScript value handed in where a string is expected:
\* [type |-> "string", value |-> s], or a value of another type
\* ([type |-> "undefined"], [type |-> "number", value |-> n], ...).
JsStr(s) == [type |-> "string", value |-> s]
JsUndefined == [type |-> "undefined"]
JsNum(n) == [type |-> "number", value |-> n]
\* !x
Falsy(x) ==
  CASE x.type = "string" -> x.value = <<>>
    [] x.type = "number" -> x.value = 0
    [] OTHER -> TRUE

parsePattern(pattern, offset) ==
  IF Falsy(pattern) \/ pattern.type # "string" THEN <<>>
  ELSE LET parts == Split(pattern.value)
           trimmed == [i \in 1..Len(parts) |-> Trim(parts[i])]
           kept == SelectSeq(trimmed, IsNonEmpty)
       IN [i \in 1..Len(kept) |-> parseInterval(kept[i], offset)]

\* voteOnYear without the compensation for the missing year 0
voteOnYear_NoYearZeroShift(intervalObj, year, yearZeroExists) ==
  IF JsRem(year - intervalObj.offset, intervalObj.interval) = 0
  THEN (IF intervalObj.subtracts THEN "deny" ELSE "allow")
  ELSE "abstain"

voteOnYear(intervalObj, year, yearZeroExists) ==
  LET mod0 == year - intervalObj.offset
      mod == IF ~yearZeroExists /\ year < 0 THEN mod0 + 1 ELSE mod0
  IN IF JsRem(mod, intervalObj.interval) = 0
     THEN (IF intervalObj.subtracts THEN "deny" ELSE "allow")
     ELSE "abstain"

\* the reduction with 'deny' votes not counted
RECURSIVE ReduceVotes_DenyIgnored(_, _)
ReduceVotes_DenyIgnored(votes, acc) ==
  IF votes = <<>> THEN acc
  ELSE ReduceVotes_DenyIgnored(Tail(votes),
         IF Head(votes) = "allow" THEN acc + 1 ELSE acc)

\* votes.reduce(..., 0)
RECURSIVE ReduceVotes(_, _)
ReduceVotes(votes, acc) ==
  IF votes = <<>> THEN acc
  ELSE ReduceVotes(Tail(votes),
         IF Head(votes) = "allow" THEN acc + 1
         ELSE IF Head(votes) = "deny" THEN acc - 1
         ELSE acc)

\* intersectsYear with a tie counted as leap
intersectsYear_TieIsLeap(intervals, year, yearZeroExists) ==
  IF Len(intervals) = 0 THEN FALSE
  ELSE ReduceVotes([i \in 1..Len(intervals) |->
                      voteOnYear(intervals[i], year, yearZeroExists)], 0) >= 0

intersectsYear(intervals, year, yearZeroExists) ==
  IF Len(intervals) = 0 THEN FALSE
  ELSE LET votes == [i \in 1..Len(intervals) |->
                       voteOnYear(intervals[i], year, yearZeroExists)]
           total == ReduceVotes(votes, 0)
       IN total > 0

Has(r, f) == f \in DOMAIN r

\* /^[!+]?\d+$/.test(part)
MatchesIntervalSyntax(part) ==
  LET body == IF part # <<>> /\ Head(part) \in {"!", "+"} THEN Tail(part) ELSE part
  IN body # <<>> /\ \A i \in 1..Len(body) : body[i] \in Digits

\* the loop of validatePattern with the "at least 1" test left out
RECURSIVE ValidateParts_ZeroAccepted(_)
ValidateParts_ZeroAccepted(parts) ==
  IF parts = <<>> THEN [valid |-> TRUE]
  ELSE IF ~MatchesIntervalSyntax(Head(parts))
       THEN [valid |-> FALSE, error |-> [message |-> "Invalid interval", part |-> Head(parts)]]
       ELSE ValidateParts_ZeroAccepted(Tail(parts))

\* for (const part of parts) { ... } return { valid: true }
RECURSIVE ValidateParts(_)
ValidateParts(parts) ==
  IF parts = <<>> THEN [valid |-> TRUE]
  ELSE LET part == Head(parts)
       IN IF ~MatchesIntervalSyntax(part)
          THEN [valid |-> FALSE,
                error |-> [message |-> "Invalid interval", part |-> part]]
          ELSE LET num == ParseInt(StripMarks(part))
               IN IF ~num.nan /\ num.val < 1
                  THEN [valid |-> FALSE,
                        error |-> [message |-> "Interval must be at least 1",
                                   part |-> part]]
                  ELSE ValidateParts(Tail(parts))

validatePattern(pattern) ==
  IF Falsy(pattern) \/ pattern.type # "string"
  THEN [valid |-> FALSE, error |-> [message |-> "Pattern is required"]]
  ELSE LET split == Split(pattern.value)
           parts == [i \in 1..Len(split) |-> Trim(split[i])]
       IN IF Len(parts) = 0
          THEN [valid |-> FALSE, error |-> [message |-> "Pattern is empty"]]
          ELSE ValidateParts(parts)

\* The configuration is a record with optional fields rule, interval,
\* start, leapStart, leapInterval and pattern, or [null |-> TRUE].
isLeapYear(leapYearConfig, year, yearZeroExists) ==
  IF Has(leapYearConfig, "null") THEN FALSE
  ELSE
    LET rule == IF Has(leapYearConfig, "rule") THEN leapYearConfig.rule ELSE "none"
        start == IF Has(leapYearConfig, "start") THEN leapYearConfig.start
                 ELSE IF Has(leapYearConfig, "leapStart") THEN leapYearConfig.leapStart
                 ELSE 0
    IN CASE rule = "none" -> FALSE
         [] rule = "simple" ->
              IF ~Has(leapYearConfig, "interval") /\ ~Has(leapYearConfig, "leapInterval")
              THEN FALSE
              ELSE LET interval == IF Has(leapYearConfig, "interval")
                                   THEN leapYearConfig.interval
                                   ELSE leapYearConfig.leapInterval
                   IN IF interval <= 0 THEN FALSE
                      ELSE intersectsYear(<<parseInterval(NumToStr(interval), start)>>,
                                          year, yearZeroExists)
         [] rule = "gregorian" ->
              intersectsYear(
                parsePattern(JsStr(<<"4", "0", "0", ",", "!", "1", "0", "0", ",", "4">>), start),
                year, yearZeroExists)
         [] rule = "custom" ->
              IF ~Has(leapYearConfig, "pattern") \/ Falsy(leapYearConfig.pattern)
              THEN FALSE
              ELSE intersectsYear(parsePattern(leapYearConfig.pattern, start),
                                  year, yearZeroExists)
         [] OTHER -> FALSE


(***************************************************************************)
(* CalendariaCalendar: leap year and month length methods.                 *)
(* A calendar is a record; months.values is a sequence of month records    *)
(* with field days and the optional field leapDays.                        *)
(***************************************************************************)
CalendariaCalendar_isLeapYear(cal, year) ==
  LET advancedConfig == IF Has(cal, "leapYearConfig") THEN cal.leapYearConfig
                        ELSE [null |-> TRUE]
  IN IF Has(advancedConfig, "rule") /\ advancedConfig.rule # "none"
     THEN isLeapYear(advancedConfig, year, TRUE)
     ELSE IF ~Has(cal, "years") \/ ~Has(cal.years, "leapYear") THEN FALSE
     ELSE LET leapConfig == cal.years.leapYear
              start == IF Has(leapConfig, "leapStart") THEN leapConfig.leapStart ELSE 0
          IN IF ~Has(leapConfig, "leapInterval") \/ leapConfig.leapInterval <= 0
             THEN FALSE
             ELSE isLeapYear([rule |-> "simple",
                              interval |-> leapConfig.leapInterval,
                              start |-> start], year, TRUE)

MonthValues(cal) == IF Has(cal, "months") THEN cal.months.values ELSE <<>>

\* monthIndex is 0-indexed
getDaysInMonth(cal, monthIndex, year) ==
  IF monthIndex + 1 \notin DOMAIN MonthValues(cal) THEN 0
  ELSE LET month == MonthValues(cal)[monthIndex + 1]
       IN IF CalendariaCalendar_isLeapYear(cal, year) /\ Has(month, "leapDays")
          THEN month.leapDays
          ELSE month.days

\* the reduction with the leap lengths left out
RECURSIVE ReduceDays_LeapDaysIgnored(_, _, _)
ReduceDays_LeapDaysIgnored(months, isLeap, sum) ==
  IF months = <<>> THEN sum
  ELSE ReduceDays_LeapDaysIgnored(Tail(months), isLeap, sum + Head(months).days)

\* (months.values ?? []).reduce(..., 0)
RECURSIVE ReduceDays(_, _, _)
ReduceDays(months, isLeap, sum) ==
  IF months = <<>> THEN sum
  ELSE LET month == Head(months)
           days == IF isLeap /\ Has(month, "leapDays") THEN month.leapDays
                   ELSE month.days
       IN ReduceDays(Tail(months), isLeap, sum + days)

getDaysInYear(cal, year) ==
  LET isLeap == CalendariaCalendar_isLeapYear(cal, year)
  IN ReduceDays(MonthValues(cal), isLeap, 0)

(***************************************************************************)
(* CalendariaCalendar: moon phase methods.                                 *)
(* A moon is a record with cycleLength, the optional cycleDayAdjust and    *)
(* the optional phases, a sequence of records with name and the optional   *)
(* icon, risingName and fadingName.  Cycle lengths and day counts are      *)
(* integers; a quotient a / b is the record [num |-> a, den |-> b].        *)
(***************************************************************************)
Null == [null |-> TRUE]

\* game.i18n.localize(key) and game.i18n.format(key, {phase})
Localize(key) == [key |-> key]
Format(key, phase) == [key |-> key, phase |-> phase]

\* the loop of the FC algorithm, i running over 0..7
RECURSIVE FcDistribution(_, _, _, _, _, _)
FcDistribution(i, distribution, extraAssigned, primaryDays, secondaryDays, extraDays) ==
  IF i >= 8 THEN distribution
  ELSE IF i = 0 \/ i = 4
       THEN FcDistribution(i + 1, Append(distribution, primaryDays), extraAssigned,
                           primaryDays, secondaryDays, extraDays)
       ELSE LET extra == IF extraAssigned < extraDays THEN 1 ELSE 0
            IN FcDistribution(i + 1, Append(distribution, secondaryDays + extra),
                              extraAssigned + 1, primaryDays, secondaryDays, extraDays)

\* the distribution with the extra days counted over all eight indices
buildPhaseDayDistribution_ExtraByIndex(cycleLength, numPhases) ==
  IF numPhases # 8
  THEN [i \in 1..numPhases |->
          (cycleLength \div numPhases) + (IF i - 1 < JsRem(cycleLength, numPhases) THEN 1 ELSE 0)]
  ELSE LET primaryDays == cycleLength \div 8
           remainingDays == cycleLength - primaryDays * 2
       IN [i \in 1..8 |->
             IF i = 1 \/ i = 5 THEN primaryDays
             ELSE (remainingDays \div 6) + (IF i - 1 < JsRem(remainingDays, 6) THEN 1 ELSE 0)]

\* static #buildPhaseDayDistribution(cycleLength, numPhases = 8)
buildPhaseDayDistribution(cycleLength, numPhases) ==
  IF numPhases # 8
  THEN LET baseDays == cycleLength \div numPhases
           remainder == JsRem(cycleLength, numPhases)
       IN [i \in 1..numPhases |-> baseDays + (IF i - 1 < remainder THEN 1 ELSE 0)]
  ELSE LET primaryDays == cycleLength \div 8
           totalPrimaryDays == primaryDays * 2
           remainingDays == cycleLength - totalPrimaryDays
           secondaryDays == remainingDays \div 6
           extraDays == JsRem(remainingDays, 6)
       IN FcDistribution(0, <<>>, 0, primaryDays, secondaryDays, extraDays)

\* the sub-phase rule with the fading third starting one day late
getSubPhaseName_StrictFading(phase, dayWithinPhase, phaseDuration) ==
  IF phaseDuration <= 1 THEN Localize(phase.name)
  ELSE IF 3 * dayWithinPhase < phaseDuration
       THEN (IF Has(phase, "risingName") /\ phase.risingName # <<>>
             THEN Localize(phase.risingName)
             ELSE Format("CALENDARIA.MoonPhase.SubPhase.Rising", Localize(phase.name)))
  ELSE IF 3 * dayWithinPhase > 3 * phaseDuration - phaseDuration
       THEN (IF Has(phase, "fadingName") /\ phase.fadingName # <<>>
             THEN Localize(phase.fadingName)
             ELSE Format("CALENDARIA.MoonPhase.SubPhase.Fading", Localize(phase.name)))
  ELSE Localize(phase.name)

\* static #getSubPhaseName(phase, dayWithinPhase, phaseDuration);
\* third = phaseDuration / 3, so d < third iff 3 d < phaseDuration
getSubPhaseName(phase, dayWithinPhase, phaseDuration) ==
  IF phaseDuration <= 1 THEN Localize(phase.name)
  ELSE IF 3 * dayWithinPhase < phaseDuration
       THEN (IF Has(phase, "risingName") /\ phase.risingName # <<>>
             THEN Localize(phase.risingName)
             ELSE Format("CALENDARIA.MoonPhase.SubPhase.Rising", Localize(phase.name)))
  ELSE IF 3 * dayWithinPhase >= 3 * phaseDuration - phaseDuration
       THEN (IF Has(phase, "fadingName") /\ phase.fadingName # <<>>
             THEN Localize(phase.fadingName)
             ELSE Format("CALENDARIA.MoonPhase.SubPhase.Fading", Localize(phase.name)))
  ELSE Localize(phase.name)

\* the search with the upper end of a phase taken inclusively
RECURSIVE FindPhase_Inclusive(_, _, _, _)
FindPhase_Inclusive(phaseDays, dayIndex, i, cumulativeDays) ==
  IF i >= Len(phaseDays) THEN [phaseArrayIndex |-> 0, dayWithinPhase |-> 0]
  ELSE IF dayIndex <= cumulativeDays + phaseDays[i + 1]
       THEN [phaseArrayIndex |-> i, dayWithinPhase |-> dayIndex - cumulativeDays]
       ELSE FindPhase_Inclusive(phaseDays, dayIndex, i + 1, cumulativeDays + phaseDays[i + 1])

\* the loop that finds the phase containing dayIndex; i is 0-indexed.
\* Without a match phaseArrayIndex and dayWithinPhase keep their initial 0.
RECURSIVE FindPhase(_, _, _, _)
FindPhase(phaseDays, dayIndex, i, cumulativeDays) ==
  IF i >= Len(phaseDays) THEN [phaseArrayIndex |-> 0, dayWithinPhase |-> 0]
  ELSE IF dayIndex < cumulativeDays + phaseDays[i + 1]
       THEN [phaseArrayIndex |-> i, dayWithinPhase |-> dayIndex - cumulativeDays]
       ELSE FindPhase(phaseDays, dayIndex, i + 1, cumulativeDays + phaseDays[i + 1])

\* matchedPhase.icon || ''
IconOf(phase) == IF Has(phase, "icon") THEN phase.icon ELSE <<>>

\* the two remainders of getMoonPhase with the adjusted value reduced once
DaysIntoCycle_SingleRemainder(daysSinceReference, cycleLength, cycleDayAdjust) ==
  JsRem(JsRem(JsRem(daysSinceReference, cycleLength) + cycleLength, cycleLength)
        + cycleDayAdjust, cycleLength)

\* daysIntoCycleRaw and daysIntoCycle
DaysIntoCycle(daysSinceReference, cycleLength, cycleDayAdjust) ==
  LET daysIntoCycleRaw ==
        JsRem(JsRem(daysSinceReference, cycleLength) + cycleLength, cycleLength)
        + cycleDayAdjust
  IN JsRem(JsRem(daysIntoCycleRaw, cycleLength) + cycleLength, cycleLength)

\* a JavaScript number: an integer, or a value Number.isFinite rejects
Finite(n) == [finite |-> TRUE, value |-> n]
NonFinite == [finite |-> FALSE, value |-> 0]

\* getMoonPhase(moonIndex, time), the time and the moon's reference date
\* being given by the difference of their day counts, daysSinceReference.
getMoonPhase(cal, moonIndex, daysSinceReference) ==
  IF ~Has(cal, "moons") \/ moonIndex + 1 \notin DOMAIN cal.moons THEN Null
  ELSE IF ~Has(cal, "months") THEN Null
  ELSE
    LET moon == cal.moons[moonIndex + 1]
        hasPhases == Has(moon, "phases")
    IN IF ~daysSinceReference.finite \/ moon.cycleLength <= 0
       THEN (IF hasPhases /\ Len(moon.phases) > 0
             THEN [name |-> moon.phases[1].name,
                   subPhaseName |-> moon.phases[1].name,
                   icon |-> IconOf(moon.phases[1]),
                   position |-> 0, dayInCycle |-> 0]
             ELSE Null)
       ELSE
         LET cycleDayAdjust == IF Has(moon, "cycleDayAdjust") THEN moon.cycleDayAdjust ELSE 0
             daysIntoCycle == DaysIntoCycle(daysSinceReference.value, moon.cycleLength, cycleDayAdjust)
             normalizedPosition == [num |-> daysIntoCycle, den |-> moon.cycleLength]
             numPhases == IF hasPhases /\ Len(moon.phases) # 0 THEN Len(moon.phases) ELSE 8
             phaseDays == buildPhaseDayDistribution(moon.cycleLength, numPhases)
             dayIndex == daysIntoCycle
             found == FindPhase(phaseDays, dayIndex, 0, 0)
             phaseArrayIndex == found.phaseArrayIndex
             dayWithinPhase == found.dayWithinPhase
         IN IF ~hasPhases THEN [threw |-> "TypeError"]
            ELSE IF Len(moon.phases) = 0 THEN Null
            ELSE
              LET matchedPhase == IF phaseArrayIndex + 1 \in DOMAIN moon.phases
                                  THEN moon.phases[phaseArrayIndex + 1]
                                  ELSE moon.phases[1]
                  phaseDuration == phaseDays[phaseArrayIndex + 1]
              IN [name |-> matchedPhase.name,
                  subPhaseName |-> getSubPhaseName(matchedPhase, dayWithinPhase, phaseDuration),
                  icon |-> IconOf(matchedPhase),
                  position |-> normalizedPosition,
                  dayInCycle |-> dayIndex,
                  phaseIndex |-> phaseArrayIndex,
                  dayWithinPhase |-> dayWithinPhase,
                  phaseDuration |-> phaseDuration]

(***************************************************************************)
(* Calls and their results.                                                *)
(***************************************************************************)
NoCall == [op |-> "none"]
NoRet == [none |-> TRUE]

\* The caller takes the result; the next query can start.
Return ==
  /\ pc = "returned"
  /\ pc' = "idle"
  /\ call' = NoCall
  /\ ret' = NoRet
  /\ UNCHANGED calendar

SeqsUpTo(S, n) == UNION {[1..k -> S] : k \in 0..n}

(***************************************************************************)
(* Specification SpecLeap: the functions of leap-year-utils.mjs applied    *)
(* to interval objects, interval lists and configurations.                 *)
(***************************************************************************)
GregorianCalendar ==
  [months |-> [values |-> <<[days |-> 31], [days |-> 28, leapDays |-> 29]>>],
   leapYearConfig |-> [rule |-> "gregorian", start |-> 0]]

\* interval objects as parseInterval builds them: 0 <= offset < interval
IntervalObjs ==
  {iv \in [interval : {1, 2, 4}, subtracts : BOOLEAN, offset : {0, 1}] :
     iv.offset < iv.interval}

IntervalLists == SeqsUpTo(IntervalObjs, MaxIntervals)

CustomPatterns ==
  {<<"4">>, <<"4", ",", "!", "4">>, <<"!", "4", ",", "2">>, <<"+", "3">>,
   <<"2", ",", ",", "3">>, <<" ", "3", " ", ",", "!", "2">>, <<",">>}

LeapConfigs ==
  {[null |-> TRUE], [rule |-> "none"], [start |-> 1], [rule |-> "lunar"],
   [rule |-> "gregorian"], [rule |-> "gregorian", start |-> 0],
   [rule |-> "gregorian", start |-> 1], [rule |-> "simple"],
   [rule |-> "custom"], [rule |-> "custom", pattern |-> JsStr(<<>>)]}
  \cup {[rule |-> "simple", interval |-> n, start |-> st] :
          n \in 0..4, st \in {-1, 0, 1}}
  \cup {[rule |-> "simple", leapInterval |-> n, leapStart |-> st] :
          n \in {4}, st \in {0, 1}}
  \cup {[rule |-> "custom", pattern |-> JsStr(p), start |-> st] :
          p \in CustomPatterns, st \in {0, 1}}

IsGregorian(cfg) == Has(cfg, "rule") /\ cfg.rule = "gregorian"

InitLeap ==
  /\ calendar = GregorianCalendar
  /\ pc = "idle"
  /\ call = NoCall
  /\ ret = NoRet

VoteOnYear ==
  /\ pc = "idle"
  /\ \E iv \in IntervalObjs, y \in Years, z \in BOOLEAN :
       /\ call' = [op |-> "voteOnYear", intervalObj |-> iv, year |-> y,
                   yearZeroExists |-> z]
       /\ ret' = voteOnYear(iv, y, z)
  /\ pc' = "returned"
  /\ UNCHANGED calendar

IntersectsYear ==
  /\ pc = "idle"
  /\ \E ivs \in IntervalLists, y \in Years, z \in BOOLEAN :
       /\ call' = [op |-> "intersectsYear", intervals |-> ivs, year |-> y,
                   yearZeroExists |-> z]
       /\ ret' = intersectsYear(ivs, y, z)
  /\ pc' = "returned"
  /\ UNCHANGED calendar

IsLeapYear ==
  /\ pc = "idle"
  /\ \E cfg \in LeapConfigs, z \in BOOLEAN :
       \E y \in (IF IsGregorian(cfg) THEN GregYears ELSE Years) :
         /\ call' = [op |-> "isLeapYear", leapYearConfig |-> cfg, year |-> y,
                     yearZeroExists |-> z]
         /\ ret' = isLeapYear(cfg, y, z)
  /\ pc' = "returned"
  /\ UNCHANGED calendar

NextLeap == VoteOnYear \/ IntersectsYear \/ IsLeapYear \/ Return

SpecLeap == InitLeap /\ [][NextLeap]_vars

(***************************************************************************)
(* C1: with rule 'gregorian', start 0 and yearZeroExists = true,           *)
(* isLeapYear(config, y) is true exactly when y is divisible by 400, or    *)
(* divisible by 4 and not by 100.                                          *)
(***************************************************************************)
Divides(n, y) == y % n = 0

IsGregorianCall ==
  /\ pc = "returned"
  /\ call.op = "isLeapYear"
  /\ IsGregorian(call.leapYearConfig)
  /\ (Has(call.leapYearConfig, "start") => call.leapYearConfig.start = 0)
  /\ call.yearZeroExists

\* C1: a gregorian configuration with start 0 and a year 0 gives leap
\* exactly for y divisible by 400, or by 4 and not by 100
C1_GregorianRule ==
  IsGregorianCall =>
    (ret <=> (Divides(400, call.year)
              \/ (Divides(4, call.year) /\ ~Divides(100, call.year))))

C1_Witness ==
  /\ IsGregorianCall
  /\ call.year = 1900
  /\ ret = FALSE

(***************************************************************************)
(* C2: intersectsYear returns true exactly when strictly more intervals    *)
(* vote 'allow' than vote 'deny'; a vote sum of 0 (a tie, or no interval   *)
(* at all) is not leap.                                                    *)
(***************************************************************************)
VotersFor(v) ==
  {i \in 1..Len(call.intervals) :
     voteOnYear(call.intervals[i], call.year, call.yearZeroExists) = v}

\* C2: the result is true exactly when the allow votes outnumber the deny
\* votes
C2_StrictMajority ==
  (pc = "returned" /\ call.op = "intersectsYear") =>
    (ret <=> Cardinality(VotersFor("allow")) > Cardinality(VotersFor("deny")))

\* pattern "4,!4" on a year divisible by 4: one allow, one deny
C2_Witness ==
  /\ pc = "returned"
  /\ call.op = "intersectsYear"
  /\ call.intervals = <<[interval |-> 4, subtracts |-> FALSE, offset |-> 0],
                        [interval |-> 4, subtracts |-> TRUE, offset |-> 0]>>
  /\ call.year = 4
  /\ ret = FALSE

(***************************************************************************)
(* C3: voteOnYear tests (year - offset + 1) mod interval = 0 when          *)
(* yearZeroExists is false and year < 0, and (year - offset) mod interval  *)
(* = 0 otherwise; it votes 'deny' when the test holds and the interval     *)
(* subtracts, 'allow' when it holds and the interval does not subtract,    *)
(* 'abstain' otherwise.  Negative multiples of the interval match.         *)
(***************************************************************************)
C3_Base ==
  IF ~call.yearZeroExists /\ call.year < 0
  THEN call.year - call.intervalObj.offset + 1
  ELSE call.year - call.intervalObj.offset

\* C3: the vote is decided by the divisibility of the (shifted) base
C3_VoteOnYear ==
  (pc = "returned" /\ call.op = "voteOnYear") =>
    ret = (IF Divides(call.intervalObj.interval, C3_Base)
           THEN (IF call.intervalObj.subtracts THEN "deny" ELSE "allow")
           ELSE "abstain")

\* year -5 with no year zero: base -4 is a negative multiple of 4
C3_Witness ==
  /\ pc = "returned"
  /\ call.op = "voteOnYear"
  /\ ~call.yearZeroExists
  /\ call.year = -5
  /\ call.intervalObj = [interval |-> 4, subtracts |-> TRUE, offset |-> 0]
  /\ ret = "deny"

(***************************************************************************)
(* Specification SpecCalendar: the leap year and month length methods of   *)
(* CalendariaCalendar on calendars with different month tables and leap    *)
(* year configurations.  yearZeroExists is the setting of the calendar     *)
(* definition that tells whether the calendar has a year 0.                *)
(***************************************************************************)
MonthRecs ==
  {[days |-> 1], [days |-> 2],
   [days |-> 1, leapDays |-> 3], [days |-> 2, leapDays |-> 0]}

MonthTables == SeqsUpTo(MonthRecs, MaxMonths)

AdvancedConfigs ==
  {[rule |-> "none"],
   [rule |-> "simple", interval |-> 4, start |-> 0],
   [rule |-> "simple", interval |-> 3, start |-> 1],
   [rule |-> "gregorian", start |-> 0],
   [rule |-> "custom", pattern |-> JsStr(<<"4", ",", "!", "2">>), start |-> 0]}

FoundryYears ==
  {[yearZero |-> 0],
   [yearZero |-> 0, leapYear |-> [leapInterval |-> 0, leapStart |-> 0]],
   [yearZero |-> 0, leapYear |-> [leapInterval |-> 4]],
   [yearZero |-> 0, leapYear |-> [leapInterval |-> 2, leapStart |-> 1]]}

FoundryLeapYears == {ys \in FoundryYears : Has(ys, "leapYear") /\ Has(ys.leapYear, "leapStart")}

Calendars ==
  {[months |-> [values |-> ms], leapYearConfig |-> c, yearZeroExists |-> z] :
     ms \in MonthTables, c \in AdvancedConfigs, z \in BOOLEAN}
  \cup {[months |-> [values |-> ms], years |-> ys, yearZeroExists |-> z] :
     ms \in MonthTables, ys \in FoundryYears, z \in BOOLEAN}
  \cup {[months |-> [values |-> ms], leapYearConfig |-> [rule |-> "none"],
         years |-> ys, yearZeroExists |-> z] :
     ms \in MonthTables, ys \in FoundryLeapYears, z \in BOOLEAN}
  \cup {[yearZeroExists |-> z] : z \in BOOLEAN}

InitCalendar ==
  /\ calendar \in Calendars
  /\ pc = "idle"
  /\ call = NoCall
  /\ ret = NoRet

CalendarIsLeapYear ==
  /\ pc = "idle"
  /\ \E y \in Years :
       /\ call' = [op |-> "calendar.isLeapYear", year |-> y]
       /\ ret' = CalendariaCalendar_isLeapYear(calendar, y)
  /\ pc' = "returned"
  /\ UNCHANGED calendar

GetDaysInMonth ==
  /\ pc = "idle"
  /\ \E i \in -1..MaxMonths, y \in Years :
       /\ call' = [op |-> "getDaysInMonth", monthIndex |-> i, year |-> y]
       /\ ret' = getDaysInMonth(calendar, i, y)
  /\ pc' = "returned"
  /\ UNCHANGED calendar

GetDaysInYear ==
  /\ pc = "idle"
  /\ \E y \in Years :
       /\ call' = [op |-> "getDaysInYear", year |-> y]
       /\ ret' = getDaysInYear(calendar, y)
  /\ pc' = "returned"
  /\ UNCHANGED calendar

NextCalendar == CalendarIsLeapYear \/ GetDaysInMonth \/ GetDaysInYear \/ Return

SpecCalendar == InitCalendar /\ [][NextCalendar]_vars

(***************************************************************************)
(* C4: the calendar's yearZeroExists setting controls the calendar's own   *)
(* isLeapYear(year): with yearZeroExists false a negative year is          *)
(* evaluated with the modulo base incremented by 1 (simple interval 4,     *)
(* start 0: year -1 is leap and year -4 is not).                           *)
(***************************************************************************)
HasAdvancedRule(cal) ==
  /\ Has(cal, "leapYearConfig")
  /\ Has(cal.leapYearConfig, "rule")
  /\ cal.leapYearConfig.rule # "none"

\* C4: the calendar's isLeapYear evaluates the year with the calendar's
\* yearZeroExists setting
C4_YearZeroExistsControlsLeap ==
  (pc = "returned" /\ call.op = "calendar.isLeapYear" /\ HasAdvancedRule(calendar)) =>
    (ret <=> isLeapYear(calendar.leapYearConfig, call.year, calendar.yearZeroExists))

(***************************************************************************)
(* C7: getDaysInMonth(i, year) is the month's leapDays when the year is     *)
(* leap and leapDays is defined, the month's days otherwise, and 0 for an  *)
(* index with no month; getDaysInYear(year) is the sum of                  *)
(* getDaysInMonth(i, year) over all months.                                *)
(***************************************************************************)
RECURSIVE SumTo(_, _, _)
SumTo(cal, n, year) ==
  IF n = 0 THEN 0 ELSE SumTo(cal, n - 1, year) + getDaysInMonth(cal, n - 1, year)

C7_DaysInMonth ==
  (pc = "returned" /\ call.op = "getDaysInMonth") =>
    LET ms == MonthValues(calendar)
        i == call.monthIndex + 1
    IN IF i \notin 1..Len(ms) THEN ret = 0
       ELSE IF CalendariaCalendar_isLeapYear(calendar, call.year) /\ Has(ms[i], "leapDays")
       THEN ret = ms[i].leapDays
       ELSE ret = ms[i].days

C7_DaysInYear ==
  (pc = "returned" /\ call.op = "getDaysInYear") =>
    ret = SumTo(calendar, Len(MonthValues(calendar)), call.year)

\* C7: getDaysInMonth is leapDays, days or 0 as above, and getDaysInYear is
\* the sum of getDaysInMonth over all months
C7_MonthLengths == C7_DaysInMonth /\ C7_DaysInYear

\* a leap year in which one month has a leap length and the other has none
C7_Witness ==
  /\ pc = "returned"
  /\ call.op = "getDaysInYear"
  /\ CalendariaCalendar_isLeapYear(calendar, call.year)
  /\ MonthValues(calendar) = <<[days |-> 2], [days |-> 1, leapDays |-> 3]>>
  /\ ret = 5

(***************************************************************************)
(* Specification SpecPattern: parseInterval and validatePattern applied    *)
(* to interval and pattern strings.                                        *)
(***************************************************************************)
Marks == {<<>>, <<"!">>, <<"+">>}
SpecNumbers == -MaxSpecNumber..MaxSpecNumber
Offsets == -MaxOffset..MaxOffset

\* an integer, optionally prefixed with '!' or '+'
IntervalSpecs == {m \o NumToStr(n) : m \in Marks, n \in SpecNumbers}

OtherIntervalStrings ==
  {<<>>, <<"!">>, <<" ", "4", " ">>, <<"4", "!">>, <<"!", "+", "4">>, <<"4", "x">>}

Alphabet == {"0", "1", "4", "!", "+", ",", " ", "-", "x"}

PatternStrings ==
  SeqsUpTo(Alphabet, MaxPatternLen)
  \cup {<<"4", ",", ",", "1", "0", "0">>,
        <<"4", "0", "0", ",", "!", "1", "0", "0", ",", "4">>,
        <<"4", "0", "0", ",", " ", "!", "1", "0", "0", " ", ",", "+", "4">>}

PatternValues ==
  {JsStr(p) : p \in PatternStrings}
  \cup {JsUndefined, [type |-> "null"], JsNum(0), JsNum(4)}

InitPattern ==
  /\ calendar = GregorianCalendar
  /\ pc = "idle"
  /\ call = NoCall
  /\ ret = NoRet

ParseInterval ==
  /\ pc = "idle"
  /\ \E str \in IntervalSpecs \cup OtherIntervalStrings, o \in Offsets :
       /\ call' = [op |-> "parseInterval", intervalStr |-> str, offset |-> o]
       /\ ret' = parseInterval(str, o)
  /\ pc' = "returned"
  /\ UNCHANGED calendar

ValidatePattern ==
  /\ pc = "idle"
  /\ \E p \in PatternValues :
       /\ call' = [op |-> "validatePattern", pattern |-> p]
       /\ ret' = validatePattern(p)
  /\ pc' = "returned"
  /\ UNCHANGED calendar

NextPattern == ParseInterval \/ ValidatePattern \/ Return

SpecPattern == InitPattern /\ [][NextPattern]_vars

(***************************************************************************)
(* C5: parseInterval(spec, offset), for a spec that is an integer n        *)
(* (possibly negative or zero) optionally prefixed with '!' or '+',        *)
(* returns interval = max(1, |n|), subtracts = true iff '!' is present,    *)
(* and offset = 0 when interval is 1 or '+' is present, otherwise offset   *)
(* mod interval taken non-negatively, so 0 <= result.offset < interval.    *)
(* The code clamps: interval = max(1, n), which is 1 for every n <= 0.     *)
(***************************************************************************)
Abs(n) == IF n < 0 THEN -n ELSE n

IsParseIntervalOf(m, n) ==
  /\ pc = "returned"
  /\ call.op = "parseInterval"
  /\ call.intervalStr = m \o NumToStr(n)

C5_RestOfResult(m) ==
  /\ ret.subtracts = (m = <<"!">>)
  /\ ret.offset = (IF ret.interval = 1 \/ m = <<"+">> THEN 0
                   ELSE call.offset % ret.interval)
  /\ 0 <= ret.offset
  /\ ret.offset < ret.interval

\* C5 as stated: interval = max(1, |n|), with the rest of the result
C5_IntervalIsAbsolute ==
  \A m \in Marks, n \in SpecNumbers :
    IsParseIntervalOf(m, n) =>
      (ret.interval = Max(1, Abs(n)) /\ C5_RestOfResult(m))

\* C5 with the clamp: interval = max(1, n), subtracts iff '!' is present,
\* offset 0 for interval 1 or '+', else offset mod interval in [0, interval)
C5_IntervalIsClamped ==
  \A m \in Marks, n \in SpecNumbers :
    IsParseIntervalOf(m, n) =>
      (ret.interval = Max(1, n) /\ C5_RestOfResult(m))

\* "!-4" with offset -1: the interval is clamped to 1, the offset is 0
C5_Witness ==
  /\ IsParseIntervalOf(<<"!">>, -4)
  /\ call.offset = -1
  /\ ret = [interval |-> 1, subtracts |-> TRUE, offset |-> 0]

(***************************************************************************)
(* C6: validatePattern(p) returns {valid: true} exactly when p is a        *)
(* non-empty string whose every comma-separated segment, trimmed, matches  *)
(* ^[!+]?\d+$ with a numeric part >= 1; any other input gives              *)
(* {valid: false, error}.                                                  *)
(***************************************************************************)
\* the positions that delimit the segments of s
Cuts(s) == {0, Len(s) + 1} \cup {i \in 1..Len(s) : s[i] = ","}

Segments(s) ==
  {SubSeq(s, x[1] + 1, x[2] - 1) :
     x \in {y \in Cuts(s) \X Cuts(s) :
              y[1] < y[2] /\ ~\E c \in Cuts(s) : y[1] < c /\ c < y[2]}}

\* optional mark, then one or more digits, not all of them 0
WellFormedSegment(t) ==
  \E k \in 1..2 :
    /\ k <= Len(t)
    /\ k = 2 => t[1] \in {"!", "+"}
    /\ \A i \in k..Len(t) : t[i] \in Digits
    /\ \E i \in k..Len(t) : t[i] # "0"

C6_ShouldBeValid(p) ==
  /\ p.type = "string"
  /\ p.value # <<>>
  /\ \A seg \in Segments(p.value) : WellFormedSegment(Trim(seg))

\* C6: valid exactly for the well-formed patterns, an error record otherwise
C6_ValidatePattern ==
  (pc = "returned" /\ call.op = "validatePattern") =>
    /\ Has(ret, "valid")
    /\ ret.valid <=> C6_ShouldBeValid(call.pattern)
    /\ ret.valid => ret = [valid |-> TRUE]
    /\ ~ret.valid => Has(ret, "error")

\* "4,,100": the blank segment is rejected
C6_Witness ==
  /\ pc = "returned"
  /\ call.op = "validatePattern"
  /\ call.pattern = JsStr(<<"4", ",", ",", "1", "0", "0">>)
  /\ ret = [valid |-> FALSE, error |-> [message |-> "Invalid interval", part |-> <<>>]]

(***************************************************************************)
(* Specification SpecMoon: the phase day distribution and getMoonPhase on  *)
(* calendars with one moon.                                                *)
(***************************************************************************)
PhaseName(i) == <<"P">> \o NatToStr(i)

\* phase i of a moon; every second phase stores its own sub-phase names
PhaseRec(i) ==
  IF i % 2 = 0
  THEN [name |-> PhaseName(i), icon |-> <<"i">> \o NatToStr(i),
        risingName |-> <<"R">> \o NatToStr(i), fadingName |-> <<"F">> \o NatToStr(i)]
  ELSE [name |-> PhaseName(i)]

PhasesOf(n) == [i \in 1..n |-> PhaseRec(i)]

Moons ==
  {[name |-> <<"M">>, cycleLength |-> l, cycleDayAdjust |-> a, phases |-> PhasesOf(n)] :
     l \in 0..MaxMoonCycle, a \in -MaxAdjust..MaxAdjust, n \in 0..MaxNumPhases}
  \cup {[name |-> <<"M">>, cycleLength |-> l, phases |-> PhasesOf(8)] : l \in 0..MaxMoonCycle}
  \cup {[name |-> <<"M">>, cycleLength |-> l] : l \in 0..MaxMoonCycle}

MoonCalendars ==
  {[months |-> [values |-> <<[days |-> 30]>>], moons |-> <<m>>] : m \in Moons}
  \cup {[months |-> [values |-> <<[days |-> 30]>>]]}
  \cup {[moons |-> <<m>>] : m \in {x \in Moons : x.cycleLength = MaxMoonCycle /\ ~Has(x, "cycleDayAdjust")}}

InitMoon ==
  /\ calendar \in MoonCalendars
  /\ pc = "idle"
  /\ call = NoCall
  /\ ret = NoRet

BuildPhaseDayDistribution ==
  /\ pc = "idle"
  /\ \E l \in 1..MaxCycleLength, n \in 1..MaxNumPhases :
       /\ call' = [op |-> "buildPhaseDayDistribution", cycleLength |-> l, numPhases |-> n]
       /\ ret' = buildPhaseDayDistribution(l, n)
  /\ pc' = "returned"
  /\ UNCHANGED calendar

GetMoonPhase ==
  /\ pc = "idle"
  /\ \E i \in 0..1, d \in {Finite(n) : n \in -MaxDaysSince..MaxDaysSince} \cup {NonFinite} :
       /\ call' = [op |-> "getMoonPhase", moonIndex |-> i,
                   daysSinceReference |-> d.value, finite |-> d.finite]
       /\ ret' = getMoonPhase(calendar, i, d)
  /\ pc' = "returned"
  /\ UNCHANGED calendar

NextMoon == GetMoonPhase \/ Return

SpecMoon == InitMoon /\ [][NextMoon]_vars

\* Specification SpecPhaseDays: the static phase day distribution alone.
InitPhaseDays ==
  /\ calendar = GregorianCalendar
  /\ pc = "idle"
  /\ call = NoCall
  /\ ret = NoRet

NextPhaseDays == BuildPhaseDayDistribution \/ Return

SpecPhaseDays == InitPhaseDays /\ [][NextPhaseDays]_vars

(***************************************************************************)
(* C8: for a moon with integer cycleLength L >= 1, any integer             *)
(* daysSinceReference and any integer cycleDayAdjust, getMoonPhase returns *)
(* dayInCycle = (daysSinceReference + cycleDayAdjust) mod L with           *)
(* 0 <= dayInCycle < L, and position = dayInCycle / L, 0 <= position < 1.  *)
(***************************************************************************)
TheMoon == calendar.moons[call.moonIndex + 1]

\* a call of getMoonPhase with a finite day difference on a moon with
\* cycleLength >= 1 and >= 1 phase
IsMoonPhaseCall ==
  /\ pc = "returned"
  /\ call.op = "getMoonPhase"
  /\ Has(calendar, "moons")
  /\ Has(calendar, "months")
  /\ call.moonIndex + 1 \in DOMAIN calendar.moons
  /\ call.finite
  /\ TheMoon.cycleLength >= 1
  /\ Has(TheMoon, "phases")
  /\ Len(TheMoon.phases) >= 1

AdjustOf(moon) == IF Has(moon, "cycleDayAdjust") THEN moon.cycleDayAdjust ELSE 0

\* C8: dayInCycle is the non-negative remainder of the adjusted day count,
\* position is dayInCycle / L
C8_DayInCycle ==
  IsMoonPhaseCall =>
    /\ Has(ret, "dayInCycle") /\ Has(ret, "position")
    /\ ret.dayInCycle = (call.daysSinceReference + AdjustOf(TheMoon)) % TheMoon.cycleLength
    /\ 0 <= ret.dayInCycle /\ ret.dayInCycle < TheMoon.cycleLength
    /\ ret.position = [num |-> ret.dayInCycle, den |-> TheMoon.cycleLength]
    /\ 0 <= ret.position.num /\ ret.position.num < ret.position.den

\* a negative day difference and an adjustment larger than the cycle
C8_Witness ==
  /\ IsMoonPhaseCall
  /\ TheMoon.cycleLength = 5
  /\ AdjustOf(TheMoon) = 12
  /\ call.daysSinceReference = -3
  /\ ret.dayInCycle = 4

(***************************************************************************)
(* C9: the phase day distribution for cycleLength L >= 1 has numPhases     *)
(* entries that sum to L.  For numPhases = 8, indices 0 and 4 get          *)
(* floor(L/8) and the six others floor((L - 2 floor(L/8)) / 6), plus one   *)
(* for the earliest ((L - 2 floor(L/8)) mod 6) of them in index order; for *)
(* any other numPhases each entry is floor(L/numPhases), plus one for the  *)
(* first (L mod numPhases) entries.                                        *)
(***************************************************************************)
RECURSIVE SumFirst(_, _)
SumFirst(seq, k) == IF k = 0 THEN 0 ELSE SumFirst(seq, k - 1) + seq[k]

\* how many secondary indices come before index i (0-indexed)
SecondaryRank(i) == Cardinality({j \in {1, 2, 3, 5, 6, 7} : j < i})

C9_Expected(L, n, i) ==
  IF n = 8
  THEN (IF i \in {0, 4} THEN L \div 8
        ELSE ((L - 2 * (L \div 8)) \div 6)
             + (IF SecondaryRank(i) < (L - 2 * (L \div 8)) % 6 THEN 1 ELSE 0))
  ELSE (L \div n) + (IF i < L % n THEN 1 ELSE 0)

\* C9: the distribution has numPhases entries, sums to L and has the
\* stated value at every index
C9_PhaseDayDistribution ==
  (pc = "returned" /\ call.op = "buildPhaseDayDistribution") =>
    /\ Len(ret) = call.numPhases
    /\ SumFirst(ret, Len(ret)) = call.cycleLength
    /\ \A i \in 0..(call.numPhases - 1) :
         ret[i + 1] = C9_Expected(call.cycleLength, call.numPhases, i)

C9_Witness ==
  /\ pc = "returned"
  /\ call.op = "buildPhaseDayDistribution"
  /\ call.cycleLength = 30
  /\ call.numPhases = 8
  /\ ret = <<3, 4, 4, 4, 3, 4, 4, 4>>

(***************************************************************************)
(* C10: for every dayInCycle in [0, cycleLength), getMoonPhase returns the *)
(* unique phaseIndex i with sum(phaseDays[0..i-1]) <= dayInCycle <         *)
(* sum(phaseDays[0..i]), dayWithinPhase = dayInCycle -                     *)
(* sum(phaseDays[0..i-1]), phaseDuration = phaseDays[i] and the name of    *)
(* moon.phases[i]; so 0 <= dayWithinPhase < phaseDuration, phaseDuration   *)
(* >= 1, and a phase given 0 days is never returned.                       *)
(***************************************************************************)
MoonPhaseDays == buildPhaseDayDistribution(TheMoon.cycleLength, Len(TheMoon.phases))

Contains(phaseDays, i, day) ==
  /\ SumFirst(phaseDays, i) <= day
  /\ day < SumFirst(phaseDays, i + 1)

\* C10: the returned phase is the only one whose cumulative span contains
\* dayInCycle, and it has at least one day
C10_PhaseOfDay ==
  IsMoonPhaseCall =>
    /\ Has(ret, "phaseIndex")
    /\ ret.phaseIndex \in 0..(Len(TheMoon.phases) - 1)
    /\ Contains(MoonPhaseDays, ret.phaseIndex, ret.dayInCycle)
    /\ \A j \in 0..(Len(TheMoon.phases) - 1) :
         Contains(MoonPhaseDays, j, ret.dayInCycle) => j = ret.phaseIndex
    /\ ret.dayWithinPhase = ret.dayInCycle - SumFirst(MoonPhaseDays, ret.phaseIndex)
    /\ ret.phaseDuration = MoonPhaseDays[ret.phaseIndex + 1]
    /\ ret.name = TheMoon.phases[ret.phaseIndex + 1].name
    /\ 0 <= ret.dayWithinPhase /\ ret.dayWithinPhase < ret.phaseDuration
    /\ ret.phaseDuration >= 1

\* cycleLength 5 with 8 phases: phase 0 has no day, day 0 falls in phase 1
C10_Witness ==
  /\ IsMoonPhaseCall
  /\ TheMoon.cycleLength = 5
  /\ Len(TheMoon.phases) = 8
  /\ MoonPhaseDays = <<0, 1, 1, 1, 0, 1, 1, 0>>
  /\ ret.dayInCycle = 0
  /\ ret.phaseIndex = 1

(***************************************************************************)
(* C11: sub-phase naming.  A phase of at most one day keeps its own name;  *)
(* otherwise a day with dayWithinPhase < phaseDuration / 3 is rising, a   *)
(* day with dayWithinPhase >= phaseDuration - phaseDuration / 3 is fading  *)
(* and every other day keeps the phase name.                               *)
(***************************************************************************)
RisingLabel(phase) ==
  IF Has(phase, "risingName") /\ phase.risingName # <<>>
  THEN Localize(phase.risingName)
  ELSE Format("CALENDARIA.MoonPhase.SubPhase.Rising", Localize(phase.name))

FadingLabel(phase) ==
  IF Has(phase, "fadingName") /\ phase.fadingName # <<>>
  THEN Localize(phase.fadingName)
  ELSE Format("CALENDARIA.MoonPhase.SubPhase.Fading", Localize(phase.name))

\* the thirds of a phase of pd days, compared without fractions:
\* d < pd / 3 iff 3 d < pd, and d >= pd - pd / 3 iff 3 d >= 2 pd
InFirstThird(d, pd) == 3 * d < pd
InLastThird(d, pd) == 3 * d >= 2 * pd

\* C11: the sub-phase name of every returned moon phase is the phase name
\* for a phase of one day, the rising label in the first third, the fading
\* label in the last third and the phase name in between
C11_SubPhaseName ==
  IsMoonPhaseCall =>
    LET phase == TheMoon.phases[ret.phaseIndex + 1]
        d == ret.dayWithinPhase
        pd == ret.phaseDuration
    IN /\ pd <= 1 => ret.subPhaseName = Localize(phase.name)
       /\ (pd >= 2 /\ InFirstThird(d, pd)) => ret.subPhaseName = RisingLabel(phase)
       /\ (pd >= 2 /\ InLastThird(d, pd)) => ret.subPhaseName = FadingLabel(phase)
       /\ (pd >= 2 /\ ~InFirstThird(d, pd) /\ ~InLastThird(d, pd))
            => ret.subPhaseName = Localize(phase.name)

\* the last day of a phase of three or more days that stores a fading name
C11_Witness ==
  /\ IsMoonPhaseCall
  /\ ret.phaseDuration >= 3
  /\ ret.dayWithinPhase = ret.phaseDuration - 1
  /\ Has(TheMoon.phases[ret.phaseIndex + 1], "fadingName")
  /\ ret.subPhaseName = Localize(TheMoon.phases[ret.phaseIndex + 1].fadingName)

(***************************************************************************)
(* C12: for degenerate moon inputs (cycleLength <= 0, a non-finite         *)
(* daysSinceReference, or a moon whose phases are missing or empty)        *)
(* getMoonPhase raises no error and falls back to the first defined phase  *)
(* with position 0 and dayInCycle 0.                                       *)
(***************************************************************************)
IsDegenerateMoonCall ==
  /\ pc = "returned"
  /\ call.op = "getMoonPhase"
  /\ Has(calendar, "moons")
  /\ Has(calendar, "months")
  /\ call.moonIndex + 1 \in DOMAIN calendar.moons
  /\ \/ TheMoon.cycleLength <= 0
     \/ ~call.finite
     \/ ~Has(TheMoon, "phases")
     \/ Len(TheMoon.phases) = 0

HasFirstPhase(moon) == Has(moon, "phases") /\ Len(moon.phases) >= 1

\* C12: a degenerate call throws nothing; it returns the first phase with
\* position 0 and dayInCycle 0 when the moon has a phase, and no phase
\* otherwise
C12_DegenerateFallback ==
  IsDegenerateMoonCall =>
    /\ ~Has(ret, "threw")
    /\ HasFirstPhase(TheMoon) =>
         /\ Has(ret, "name") /\ ret.name = TheMoon.phases[1].name
         /\ ret.position = 0
         /\ ret.dayInCycle = 0
    /\ ~HasFirstPhase(TheMoon) => ret = Null

(***************************************************************************)
(* Seasons: CalendariaCalendar.getCurrentSeason.                           *)
(***************************************************************************)

\* the day-of-year loop of getCurrentSeason, _getDaylightHoursForDay and
\* _getCycleEpochValues: the days of the first n months,
\* months.values[i]?.days ?? 0 for i < n
RECURSIVE SumMonthDays(_, _)
SumMonthDays(months, n) ==
  IF n <= 0 THEN 0
  ELSE SumMonthDays(months, n - 1)
       + (IF n \in DOMAIN months /\ Has(months[n], "days") THEN months[n].days ELSE 0)

\* let dayOfYear = components.dayOfMonth; for (i < components.month) ...
dayOfYear(cal, components) ==
  components.dayOfMonth + SumMonthDays(cal.months.values, components.month)

\* the season test with a wrapping day range requiring both ends
SeasonMatches_WrapNeedsBoth(cal, season, components) ==
  IF Has(season, "dayStart") /\ Has(season, "dayEnd")
  THEN IF season.dayStart <= season.dayEnd
       THEN dayOfYear(cal, components) >= season.dayStart
            /\ dayOfYear(cal, components) <= season.dayEnd
       ELSE dayOfYear(cal, components) >= season.dayStart
            /\ dayOfYear(cal, components) <= season.dayEnd
  ELSE IF Has(season, "monthStart") /\ Has(season, "monthEnd")
  THEN LET currentMonth == components.month + 1
           startDay == IF Has(season, "dayStart") THEN season.dayStart ELSE 1
           endDay == IF Has(season, "dayEnd") THEN season.dayEnd
                     ELSE IF season.monthEnd \in DOMAIN cal.months.values
                               /\ Has(cal.months.values[season.monthEnd], "days")
                          THEN cal.months.values[season.monthEnd].days
                          ELSE 30
       IN IF season.monthStart <= season.monthEnd
          THEN \/ currentMonth > season.monthStart /\ currentMonth < season.monthEnd
               \/ currentMonth = season.monthStart /\ components.dayOfMonth + 1 >= startDay
               \/ currentMonth = season.monthEnd /\ components.dayOfMonth + 1 <= endDay
          ELSE \/ currentMonth > season.monthStart \/ currentMonth < season.monthEnd
               \/ currentMonth = season.monthStart /\ components.dayOfMonth + 1 >= startDay
               \/ currentMonth = season.monthEnd /\ components.dayOfMonth + 1 <= endDay
  ELSE FALSE

\* the body of the season loop: TRUE when it executes `return season`
SeasonMatches(cal, season, components) ==
  IF Has(season, "dayStart") /\ Has(season, "dayEnd")
  THEN IF season.dayStart <= season.dayEnd
       THEN dayOfYear(cal, components) >= season.dayStart
            /\ dayOfYear(cal, components) <= season.dayEnd
       ELSE dayOfYear(cal, components) >= season.dayStart
            \/ dayOfYear(cal, components) <= season.dayEnd
  ELSE IF Has(season, "monthStart") /\ Has(season, "monthEnd")
  THEN LET currentMonth == components.month + 1
           startDay == IF Has(season, "dayStart") THEN season.dayStart ELSE 1
           endDay == IF Has(season, "dayEnd") THEN season.dayEnd
                     ELSE IF season.monthEnd \in DOMAIN cal.months.values
                               /\ Has(cal.months.values[season.monthEnd], "days")
                          THEN cal.months.values[season.monthEnd].days
                          ELSE 30
       IN IF season.monthStart <= season.monthEnd
          THEN \/ currentMonth > season.monthStart /\ currentMonth < season.monthEnd
               \/ currentMonth = season.monthStart /\ components.dayOfMonth + 1 >= startDay
               \/ currentMonth = season.monthEnd /\ components.dayOfMonth + 1 <= endDay
          ELSE \/ currentMonth > season.monthStart \/ currentMonth < season.monthEnd
               \/ currentMonth = season.monthStart /\ components.dayOfMonth + 1 >= startDay
               \/ currentMonth = season.monthEnd /\ components.dayOfMonth + 1 <= endDay
  ELSE FALSE

\* for (const season of this.seasons.values): the 1-based position of the
\* first season the loop returns from position i on, 0 when it runs out
RECURSIVE FirstSeason(_, _, _, _)
FirstSeason(cal, seasons, components, i) ==
  IF i > Len(seasons) THEN 0
  ELSE IF SeasonMatches(cal, seasons[i], components) THEN i
  ELSE FirstSeason(cal, seasons, components, i + 1)

\* the resolver without the fallback to the first season
getCurrentSeason_NoFallback(cal, components) ==
  IF ~Has(cal, "seasons") \/ ~Has(cal.seasons, "values") \/ Len(cal.seasons.values) = 0
  THEN Null
  ELSE LET found == FirstSeason(cal, cal.seasons.values, components, 1)
       IN IF found # 0 THEN cal.seasons.values[found] ELSE Null

\* getCurrentSeason(time) for time components
getCurrentSeason(cal, components) ==
  IF ~Has(cal, "seasons") \/ ~Has(cal.seasons, "values") \/ Len(cal.seasons.values) = 0
  THEN Null
  ELSE LET found == FirstSeason(cal, cal.seasons.values, components, 1)
       IN IF found # 0 THEN cal.seasons.values[found] ELSE cal.seasons.values[1]

(***************************************************************************)
(* Specification SpecSeason: calendars with seasons, queried for the       *)
(* season of every date of a common and of a leap year.                    *)
(***************************************************************************)
MaxSeasonDay == 6

\* three short months, the second one day longer in a leap year
ShortMonths == <<[days |-> 2], [days |-> 2, leapDays |-> 3], [days |-> 2]>>

\* the month lengths of the Gregorian calendar
LongMonths ==
  <<[days |-> 31], [days |-> 28, leapDays |-> 29], [days |-> 31], [days |-> 30],
    [days |-> 31], [days |-> 30], [days |-> 31], [days |-> 31], [days |-> 30],
    [days |-> 31], [days |-> 30], [days |-> 31]>>

SeasonDays == 0..MaxSeasonDay

\* seasons given by a day-of-year range
DaySeasons(nm) ==
  {[name |-> nm, dayStart |-> a, dayEnd |-> b] : a \in SeasonDays, b \in SeasonDays}

\* seasons given by a month range, with none, one or both day bounds
MonthSeasons(nm) ==
  {[name |-> nm, monthStart |-> a, monthEnd |-> b] : a \in 1..3, b \in 1..3}
  \cup {[name |-> nm, monthStart |-> a, monthEnd |-> b, dayStart |-> s] :
          a \in 1..3, b \in 1..3, s \in 1..2}
  \cup {[name |-> nm, monthStart |-> a, monthEnd |-> b, dayEnd |-> e] :
          a \in 1..3, b \in 1..3, e \in 1..2}
  \cup {[name |-> nm, monthStart |-> a, monthEnd |-> b, dayStart |-> s, dayEnd |-> e] :
          a \in 1..3, b \in 1..3, s \in 1..2, e \in 1..2}

SeasonShapes(nm) == DaySeasons(nm) \cup MonthSeasons(nm)

\* the season put first in a list of two: the first day of the year, or
\* the first day of the first month
FirstSeasons ==
  {[name |-> <<"S", "1">>, dayStart |-> 0, dayEnd |-> 0],
   [name |-> <<"S", "1">>, monthStart |-> 1, monthEnd |-> 1, dayEnd |-> 1]}

SeasonLists ==
  {<<>>}
  \cup {<<s>> : s \in SeasonShapes(<<"S", "1">>)}
  \cup {<<f, s>> : f \in FirstSeasons, s \in SeasonShapes(<<"S", "2">>)}

SeasonLeapConfig == [rule |-> "simple", interval |-> 4, start |-> 0]

SeasonCalendars ==
  {[months |-> [values |-> ShortMonths], leapYearConfig |-> SeasonLeapConfig,
    seasons |-> [values |-> ss]] : ss \in SeasonLists}
  \cup {[months |-> [values |-> ShortMonths], leapYearConfig |-> SeasonLeapConfig]}
  \cup {[months |-> [values |-> LongMonths], leapYearConfig |-> [rule |-> "gregorian"],
         seasons |-> [values |-> <<[name |-> <<"S", "1">>, dayStart |-> 78, dayEnd |-> 353],
                                   [name |-> <<"S", "2">>, dayStart |-> 354, dayEnd |-> 77]>>]]}

\* a common year and a leap year
SeasonYears == {3, 4}

\* the dates of a year: month and dayOfMonth are 0-indexed
Dates(cal, years) ==
  UNION {UNION {{[year |-> y, month |-> m, dayOfMonth |-> dd] :
                    dd \in 0..(getDaysInMonth(cal, m, y) - 1)} :
                 m \in 0..(Len(cal.months.values) - 1)} :
         y \in years}

InitSeason ==
  /\ calendar \in SeasonCalendars
  /\ pc = "idle"
  /\ call = NoCall
  /\ ret = NoRet

GetCurrentSeason ==
  /\ pc = "idle"
  /\ \E time \in Dates(calendar, SeasonYears) :
       /\ call' = [op |-> "getCurrentSeason", time |-> time]
       /\ ret' = getCurrentSeason(calendar, time)
  /\ pc' = "returned"
  /\ UNCHANGED calendar

NextSeason == GetCurrentSeason \/ Return

SpecSeason == InitSeason /\ [][NextSeason]_vars

(***************************************************************************)
(* Claims about the season resolver.                                       *)
(***************************************************************************)
\* a getCurrentSeason call on a calendar with at least one season
IsSeasonCall ==
  /\ pc = "returned"
  /\ call.op = "getCurrentSeason"
  /\ Has(calendar, "seasons")
  /\ Len(calendar.seasons.values) >= 1

Seasons == calendar.seasons.values

Least(S) == CHOOSE x \in S : \A y \in S : x <= y

\* the season expected when the seasons at the positions M match the date
ExpectedSeason(M) == IF M = {} THEN Seasons[1] ELSE Seasons[Least(M)]

IsDayRange(s) ==
  /\ Has(s, "dayStart") /\ Has(s, "dayEnd")
  /\ ~Has(s, "monthStart") /\ ~Has(s, "monthEnd")

IsMonthRange(s) == Has(s, "monthStart") /\ Has(s, "monthEnd")

\* the day-range rule for day-of-year d
C13_Rule(s, d) ==
  IF s.dayStart <= s.dayEnd
  THEN s.dayStart <= d /\ d <= s.dayEnd
  ELSE d >= s.dayStart \/ d <= s.dayEnd

\* C13: on a calendar of day-range seasons the resolver returns the first
\* season whose range, wrapping when dayStart > dayEnd, holds the
\* day-of-year of the date (the first season when there is none)
C13_DayRangeMatch ==
  (IsSeasonCall /\ \A i \in DOMAIN Seasons : IsDayRange(Seasons[i])) =>
    ret = ExpectedSeason({i \in DOMAIN Seasons :
                            C13_Rule(Seasons[i], dayOfYear(calendar, call.time))})

\* dayStart 354, dayEnd 77: day 10 of the year lies in the wrapping season
C13_Witness ==
  /\ IsSeasonCall
  /\ Len(Seasons) = 2
  /\ IsDayRange(Seasons[2])
  /\ Seasons[2].dayStart = 354 /\ Seasons[2].dayEnd = 77
  /\ dayOfYear(calendar, call.time) = 10
  /\ ~C13_Rule(Seasons[1], 10)
  /\ ret = Seasons[2]

\* the month-range rule: month is 0-indexed in the date, 1-indexed in the
\* season; day bounds are 1-indexed days of the month
C14_Rule(cal, s, time) ==
  LET m == time.month + 1
      day == time.dayOfMonth + 1
      startDay == IF Has(s, "dayStart") THEN s.dayStart ELSE 1
      endDay == IF Has(s, "dayEnd") THEN s.dayEnd
                ELSE cal.months.values[s.monthEnd].days
  IN \/ (IF s.monthStart <= s.monthEnd
          THEN s.monthStart < m /\ m < s.monthEnd
          ELSE m > s.monthStart \/ m < s.monthEnd)
     \/ m = s.monthStart /\ day >= startDay
     \/ m = s.monthEnd /\ day <= endDay

\* a season with monthStart and monthEnd is matched by month and day,
\* any other season by its day-of-year range
C14_Matches(cal, s, time) ==
  IF IsMonthRange(s) THEN C14_Rule(cal, s, time)
  ELSE C13_Rule(s, dayOfYear(cal, time))

\* C14: on a calendar with a month-range season, whether it gives none,
\* one or both of dayStart and dayEnd, the resolver returns the first
\* season matched by month and day-of-month (day-range seasons by their
\* range), the first season when there is none
C14_MonthRangeMatch ==
  (IsSeasonCall /\ \E i \in DOMAIN Seasons : IsMonthRange(Seasons[i])) =>
    ret = ExpectedSeason({i \in DOMAIN Seasons :
                            C14_Matches(calendar, Seasons[i], call.time)})

\* C15: with at least one season the resolver never returns null: it
\* returns the first season, in definition order, whose test succeeds
\* and the first season of the list when no test succeeds
C15_FirstMatchOrFirstSeason ==
  IsSeasonCall =>
    /\ ret # Null
    /\ ret = ExpectedSeason({i \in DOMAIN Seasons :
                               SeasonMatches(calendar, Seasons[i], call.time)})

\* two seasons, neither matching the date: the first one is returned
C15_Witness ==
  /\ IsSeasonCall
  /\ Len(Seasons) = 2
  /\ \A i \in DOMAIN Seasons : ~SeasonMatches(calendar, Seasons[i], call.time)
  /\ ret = Seasons[1]

\* dayOfMonth plus the lengths getDaysInMonth gives the preceding months
RECURSIVE SumDaysInMonth(_, _, _)
SumDaysInMonth(cal, n, year) ==
  IF n <= 0 THEN 0
  ELSE SumDaysInMonth(cal, n - 1, year) + getDaysInMonth(cal, n - 1, year)

LeapDayOfYear(cal, time) == time.dayOfMonth + SumDaysInMonth(cal, time.month, time.year)

\* C16: the day-of-year the season resolver computes is dayOfMonth plus
\* the sum of daysInMonth(i, year) over the preceding months, leap-variant
\* lengths included, and day-range seasons are resolved on that value
C16_DayOfYearUsesLeapLengths ==
  IsSeasonCall =>
    /\ dayOfYear(calendar, call.time) = LeapDayOfYear(calendar, call.time)
    /\ (\A i \in DOMAIN Seasons : IsDayRange(Seasons[i])) =>
         ret = ExpectedSeason({i \in DOMAIN Seasons :
                                 C13_Rule(Seasons[i], LeapDayOfYear(calendar, call.time))})

(***************************************************************************)
(* Eras: CalendariaCalendar.getCurrentEra and formatYearWithEra.           *)
(***************************************************************************)

\* this.years?.yearZero ?? 0
YearZero(cal) ==
  IF Has(cal, "years") /\ Has(cal.years, "yearZero") THEN cal.years.yearZero ELSE 0

\* one step of the stable sort: era e, which follows the eras of sorted in
\* the array, is placed after every era whose startYear is not smaller
RECURSIVE InsertEra(_, _)
InsertEra(sorted, e) ==
  IF sorted = <<>> THEN <<e>>
  ELSE IF Head(sorted).startYear >= e.startYear
       THEN <<Head(sorted)>> \o InsertEra(Tail(sorted), e)
       ELSE <<e>> \o sorted

\* the copy of the eras left in declaration order
SortedEras_DeclarationOrder(eras) == eras

\* [...this.eras].sort((a, b) => b.startYear - a.startYear)
RECURSIVE SortedEras(_)
SortedEras(eras) ==
  IF eras = <<>> THEN <<>>
  ELSE InsertEra(SortedEras(SubSeq(eras, 1, Len(eras) - 1)), eras[Len(eras)])

\* era.endYear == null || displayYear <= era.endYear, with the lower bound
EraContains(era, displayYear) ==
  /\ displayYear >= era.startYear
  /\ (~Has(era, "endYear") \/ displayYear <= era.endYear)

\* the object getCurrentEra returns for an era
EraData(era, yearInEra) ==
  [name |-> era.name,
   abbreviation |-> era.abbreviation,
   format |-> IF Has(era, "format") /\ era.format # "" THEN era.format ELSE "suffix",
   template |-> IF Has(era, "template") /\ era.template # <<>>
                THEN JsStr(era.template) ELSE Null,
   yearInEra |-> yearInEra]

\* for (const era of sortedEras): the first era containing displayYear
RECURSIVE FirstEra(_, _)
FirstEra(sortedEras, displayYear) ==
  IF sortedEras = <<>> THEN Null
  ELSE IF EraContains(Head(sortedEras), displayYear)
       THEN EraData(Head(sortedEras), displayYear - Head(sortedEras).startYear + 1)
       ELSE FirstEra(Tail(sortedEras), displayYear)

\* the resolution falling back to the first era of the sorted copy
ResolveEra_FallbackSorted(eras, displayYear) ==
  LET found == FirstEra(SortedEras(eras), displayYear)
  IN IF found # Null THEN found
     ELSE EraData(SortedEras(eras)[1], displayYear)

\* getCurrentEra after displayYear is known, for a non-empty era list
ResolveEra(eras, displayYear) ==
  LET found == FirstEra(SortedEras(eras), displayYear)
  IN IF found # Null THEN found
     ELSE EraData(eras[1], displayYear)

\* getCurrentEra(time) for time components
getCurrentEra(cal, components) ==
  IF ~Has(cal, "eras") \/ Len(cal.eras) = 0 THEN Null
  ELSE ResolveEra(cal.eras, components.year + YearZero(cal))

\* a piece of rendered text: literal characters, or a localized string
Str(s) == [str |-> s]

\* String(year)
YearString(year) == <<Str(NumToStr(year))>>

\* value ? game.i18n.localize(value) : ''
LocalizeOrEmpty(value) == IF value # <<>> THEN Localize(value) ELSE Str(<<>>)

\* formatEraTemplate(template, context): every placeholder of the template
\* is replaced by its value; a template is a sequence of placeholders and
\* literal characters
FormatEraTemplatePiece(piece, context) ==
  IF piece = "{{year}}" THEN Str(NumToStr(context.year))
  ELSE IF piece = "{{abbreviation}}" THEN context.abbreviation
  ELSE IF piece = "{{era}}" THEN context.era
  ELSE IF piece = "{{yearInEra}}" THEN Str(NumToStr(context.yearInEra))
  ELSE Str(<<piece>>)

formatEraTemplate(template, context) ==
  [i \in 1..Len(template) |-> FormatEraTemplatePiece(template[i], context)]

\* the formatter with the legacy format tested before the template
formatYearWithEra_FormatFirst(cal, year) ==
  LET eraData == getCurrentEra(cal, [year |-> year - YearZero(cal), month |-> 0, dayOfMonth |-> 0])
  IN IF eraData = Null THEN YearString(year)
     ELSE LET abbr == LocalizeOrEmpty(eraData.abbreviation)
              eraName == LocalizeOrEmpty(eraData.name)
          IN IF eraData.abbreviation = <<>> THEN YearString(year)
             ELSE IF eraData.format = "prefix"
             THEN <<abbr, Str(<<" ">>)>> \o YearString(year)
             ELSE IF eraData.template # Null
             THEN formatEraTemplate(eraData.template.value,
                                    [year |-> year, abbreviation |-> abbr, era |-> eraName,
                                     yearInEra |-> eraData.yearInEra])
             ELSE YearString(year) \o <<Str(<<" ">>), abbr>>

\* formatYearWithEra(year)
formatYearWithEra(cal, year) ==
  LET eraData == getCurrentEra(cal, [year |-> year - YearZero(cal), month |-> 0, dayOfMonth |-> 0])
  IN IF eraData = Null THEN YearString(year)
     ELSE LET abbr == LocalizeOrEmpty(eraData.abbreviation)
              eraName == LocalizeOrEmpty(eraData.name)
          IN IF eraData.template # Null
             THEN formatEraTemplate(eraData.template.value,
                                    [year |-> year, abbreviation |-> abbr, era |-> eraName,
                                     yearInEra |-> eraData.yearInEra])
             ELSE IF eraData.abbreviation = <<>> THEN YearString(year)
             ELSE IF eraData.format = "prefix"
             THEN <<abbr, Str(<<" ">>)>> \o YearString(year)
             ELSE YearString(year) \o <<Str(<<" ">>), abbr>>

(***************************************************************************)
(* Specification SpecEra: calendars with up to two eras, queried for the   *)
(* era of a year and for the formatted year.                               *)
(***************************************************************************)
MaxEraStart == 4

EraName(i) == <<"E">> \o NatToStr(i)

\* era number i with abbreviation "A<i>" and the default rendering
\* (format 'suffix', no template)
PlainEras(i) ==
  {[name |-> EraName(i), abbreviation |-> <<"A">> \o NatToStr(i), startYear |-> s,
    format |-> "suffix"] : s \in 1..MaxEraStart}
  \cup {[name |-> EraName(i), abbreviation |-> <<"A">> \o NatToStr(i), startYear |-> s,
         endYear |-> e, format |-> "suffix"] :
          s \in 1..MaxEraStart, e \in 1..(MaxEraStart + 1)}

EraTemplates ==
  {<<"{{year}}", " ", "{{abbreviation}}">>,
   <<"{{abbreviation}}", " ", "{{yearInEra}}">>,
   <<"Y", " ", "{{yearInEra}}", " ", "{{era}}">>}

\* era number i in every rendering style, over three year ranges
StyledEras(i) ==
  LET ranged ==
        {[name |-> EraName(i), startYear |-> 1],
         [name |-> EraName(i), startYear |-> 3],
         [name |-> EraName(i), startYear |-> 2, endYear |-> 3]}
      abbreviated ==
        {[f \in DOMAIN r \cup {"abbreviation"} |->
            IF f = "abbreviation" THEN a ELSE r[f]] :
           r \in ranged, a \in {<<>>, <<"A">> \o NatToStr(i)}}
      formatted ==
        abbreviated
        \cup {[f \in DOMAIN r \cup {"format"} |-> IF f = "format" THEN x ELSE r[f]] :
                r \in abbreviated, x \in {"", "prefix", "suffix"}}
  IN formatted
     \cup {[f \in DOMAIN r \cup {"template"} |-> IF f = "template" THEN t ELSE r[f]] :
             r \in formatted, t \in EraTemplates \cup {<<>>}}

\* the eras of the overlap example: two open-ended eras, the earlier first
ExampleEras ==
  <<[name |-> EraName(1), abbreviation |-> <<"A", "1">>, startYear |-> 1000, format |-> "suffix"],
    [name |-> EraName(2), abbreviation |-> <<"A", "2">>, startYear |-> 1500, format |-> "suffix"]>>

EraLists ==
  {<<>>, ExampleEras}
  \cup {<<a>> : a \in PlainEras(1)}
  \cup {<<a, b>> : a \in PlainEras(1), b \in PlainEras(2)}
  \cup {<<a>> : a \in StyledEras(1)}
  \cup {<<a, b>> : a \in StyledEras(1), b \in {x \in PlainEras(2) : x.startYear = 2}}

EraCalendars ==
  {[eras |-> es] : es \in EraLists}
  \cup {[eras |-> es, years |-> [yearZero |-> 1]] : es \in EraLists}
  \cup {[years |-> [yearZero |-> 1]]}

\* the years asked for: around the era bounds, and the year of the example
EraYears == (-1..(MaxEraStart + 2)) \cup {1600}

InitEra ==
  /\ calendar \in EraCalendars
  /\ pc = "idle"
  /\ call = NoCall
  /\ ret = NoRet

GetCurrentEra ==
  /\ pc = "idle"
  /\ \E y \in EraYears :
       LET time == [year |-> y, month |-> 0, dayOfMonth |-> 0]
       IN /\ call' = [op |-> "getCurrentEra", time |-> time]
          /\ ret' = getCurrentEra(calendar, time)
  /\ pc' = "returned"
  /\ UNCHANGED calendar

FormatYearWithEra ==
  /\ pc = "idle"
  /\ \E y \in EraYears :
       /\ call' = [op |-> "formatYearWithEra", year |-> y]
       /\ ret' = formatYearWithEra(calendar, y)
  /\ pc' = "returned"
  /\ UNCHANGED calendar

NextEra == GetCurrentEra \/ FormatYearWithEra \/ Return

SpecEra == InitEra /\ [][NextEra]_vars

(***************************************************************************)
(* Claims about the era resolver.                                          *)
(***************************************************************************)
\* a getCurrentEra call on a calendar with at least one era
IsEraCall ==
  /\ pc = "returned"
  /\ call.op = "getCurrentEra"
  /\ Has(calendar, "eras")
  /\ Len(calendar.eras) >= 1

DisplayYear == call.time.year + YearZero(calendar)

\* startYear <= displayYear <= endYear, an absent endYear being no bound
Covers(era, y) ==
  /\ era.startYear <= y
  /\ (Has(era, "endYear") => y <= era.endYear)

Covering(eras, y) == {i \in DOMAIN eras : Covers(eras[i], y)}

\* C17: when some era covers the display year, the era returned is one
\* covering it with the greatest startYear among those covering it, and
\* yearInEra = displayYear - startYear + 1
C17_LatestCoveringEra ==
  (IsEraCall /\ Covering(calendar.eras, DisplayYear) # {}) =>
    /\ ret # Null
    /\ \E i \in Covering(calendar.eras, DisplayYear) :
         /\ \A j \in Covering(calendar.eras, DisplayYear) :
              calendar.eras[j].startYear <= calendar.eras[i].startYear
         /\ ret.name = calendar.eras[i].name
         /\ ret.abbreviation = calendar.eras[i].abbreviation
         /\ ret.yearInEra = DisplayYear - calendar.eras[i].startYear + 1

\* eras starting 1000 and 1500, declared in that order, asked for 1600
C17_Witness ==
  /\ IsEraCall
  /\ Len(calendar.eras) = 2
  /\ calendar.eras[1].startYear = 1000 /\ ~Has(calendar.eras[1], "endYear")
  /\ calendar.eras[2].startYear = 1500 /\ ~Has(calendar.eras[2], "endYear")
  /\ DisplayYear = 1600
  /\ ret.name = calendar.eras[2].name
  /\ ret.yearInEra = 101

\* C18: when no era covers the display year the first declared era is
\* returned with yearInEra = displayYear; null is returned exactly when
\* the calendar has no era
C18_FallbackFirstDeclared ==
  (pc = "returned" /\ call.op = "getCurrentEra") =>
    /\ (ret = Null) <=> (~Has(calendar, "eras") \/ Len(calendar.eras) = 0)
    /\ (IsEraCall /\ Covering(calendar.eras, DisplayYear) = {}) =>
         /\ ret.name = calendar.eras[1].name
         /\ ret.abbreviation = calendar.eras[1].abbreviation
         /\ ret.yearInEra = DisplayYear

\* two eras, the first declared starting earlier, and a year before both
C18_Witness ==
  /\ IsEraCall
  /\ Len(calendar.eras) = 2
  /\ calendar.eras[1].startYear < calendar.eras[2].startYear
  /\ Covering(calendar.eras, DisplayYear) = {}
  /\ ret.name = calendar.eras[1].name
  /\ ret.yearInEra = DisplayYear

\* a formatYearWithEra call
IsFormatYearCall == pc = "returned" /\ call.op = "formatYearWithEra"

HasEras == Has(calendar, "eras") /\ Len(calendar.eras) >= 1

\* the era resolved for the display year given to formatYearWithEra
EraOfYear == ResolveEra(calendar.eras, call.year)

C19_Abbr == LocalizeOrEmpty(EraOfYear.abbreviation)

C19_TemplateRendering ==
  formatEraTemplate(EraOfYear.template.value,
                    [year |-> call.year, abbreviation |-> C19_Abbr,
                     era |-> LocalizeOrEmpty(EraOfYear.name),
                     yearInEra |-> EraOfYear.yearInEra])

C19_Prefixed == <<C19_Abbr, Str(<<" ">>)>> \o YearString(call.year)

C19_Suffixed == YearString(call.year) \o <<Str(<<" ">>), C19_Abbr>>

\* C19 as stated: template rendering, else "<abbr> <year>" for 'prefix',
\* else "<year> <abbr>"; the bare year only when no era resolves
C19_PrefixOrSuffixAlways ==
  IsFormatYearCall =>
    ret = IF ~HasEras THEN YearString(call.year)
          ELSE IF EraOfYear.template # Null THEN C19_TemplateRendering
          ELSE IF EraOfYear.format = "prefix" THEN C19_Prefixed
          ELSE C19_Suffixed

\* C19: formatYearWithEra renders the era of exactly the display year
\* given: the template rendering when the era has a template; otherwise
\* the bare year when the era's abbreviation is empty, "<abbr> <year>"
\* for format 'prefix' and "<year> <abbr>" for any other format; and the
\* bare year when the calendar has no era
C19_FormatYearWithEra ==
  IsFormatYearCall =>
    ret = IF ~HasEras THEN YearString(call.year)
          ELSE IF EraOfYear.template # Null THEN C19_TemplateRendering
          ELSE IF EraOfYear.abbreviation = <<>> THEN YearString(call.year)
          ELSE IF EraOfYear.format = "prefix" THEN C19_Prefixed
          ELSE C19_Suffixed

\* an era with format 'prefix' and a template, on a calendar whose
\* yearZero is not 0: the template rendering is returned
C19_Witness ==
  /\ IsFormatYearCall
  /\ HasEras
  /\ YearZero(calendar) # 0
  /\ EraOfYear.format = "prefix"
  /\ EraOfYear.template # Null
  /\ EraOfYear.abbreviation # <<>>
  /\ ret = C19_TemplateRendering
  /\ ret # C19_Prefixed

(***************************************************************************)
(* Cycles: CalendariaCalendar.getCycleValues and _getCycleEpochValues.     *)
(***************************************************************************)

\* _getCycleEpochValues(components, displayYear); totalDays is the value of
\* this._componentsToDays(components), which the framework's
\* componentsToTime determines
getCycleEpochValues(cal, components, displayYear, totalDays) ==
  LET era == getCurrentEra(cal, [year |-> components.year, month |-> components.month,
                                 dayOfMonth |-> components.dayOfMonth])
      eraYear == IF era # Null THEN era.yearInEra ELSE displayYear
  IN [year |-> displayYear,
      eraYear |-> eraYear,
      month |-> components.month,
      monthDay |-> components.dayOfMonth,
      day |-> totalDays,
      yearDay |-> dayOfYear(cal, components)]

\* the cycle number with the epoch value left undivided by the length
CycleNum_Undivided(epochValue, length, numEntries) ==
  LET cycleNum == epochValue
  IN IF cycleNum < 0
     THEN cycleNum + ((Max(epochValue, -epochValue) + numEntries - 1) \div numEntries)
                     * numEntries
     ELSE cycleNum

\* cycleNum: Math.floor(epochValue / cycle.length), lifted when negative by
\* Math.ceil(Math.abs(epochValue) / entries.length) * entries.length
CycleNum(epochValue, length, numEntries) ==
  LET cycleNum == epochValue \div length
  IN IF cycleNum < 0
     THEN cycleNum + ((Max(epochValue, -epochValue) + numEntries - 1) \div numEntries)
                     * numEntries
     ELSE cycleNum

\* cycle.offset || 0
OffsetOf(cycle) == IF Has(cycle, "offset") THEN cycle.offset ELSE 0

\* the index with the offset added whole instead of floor(offset / length)
NormalizedIndex_OffsetUnfloored(cycle, epochValue) ==
  LET numEntries == Len(cycle.entries)
      cycleIndex == JsRem(CycleNum(epochValue, cycle.length, numEntries)
                          + OffsetOf(cycle), numEntries)
  IN JsRem(JsRem(cycleIndex, numEntries) + numEntries, numEntries)

\* cycleIndex and normalizedIndex
NormalizedIndex(cycle, epochValue) ==
  LET numEntries == Len(cycle.entries)
      cycleIndex == JsRem(CycleNum(epochValue, cycle.length, numEntries)
                          + (OffsetOf(cycle) \div cycle.length), numEntries)
  IN JsRem(JsRem(cycleIndex, numEntries) + numEntries, numEntries)

\* !cycle.entries?.length
HasEntries(cycle) == Has(cycle, "entries") /\ Len(cycle.entries) > 0

\* epochValues[cycle.basedOn] ?? 0
EpochValue(cycle, epochValues) ==
  IF cycle.basedOn \in DOMAIN epochValues THEN epochValues[cycle.basedOn] ELSE 0

\* the object pushed to values for a cycle that has entries
CycleValue(cycle, epochValues) ==
  LET normalizedIndex == NormalizedIndex(cycle, EpochValue(cycle, epochValues))
  IN [cycleName |-> cycle.name,
      entryName |-> cycle.entries[normalizedIndex + 1].name,
      index |-> normalizedIndex]

\* values after the loop over the first n cycles
RECURSIVE CycleValuesUpTo(_, _, _)
CycleValuesUpTo(cycles, epochValues, n) ==
  IF n = 0 THEN <<>>
  ELSE IF HasEntries(cycles[n])
       THEN Append(CycleValuesUpTo(cycles, epochValues, n - 1),
                   CycleValue(cycles[n], epochValues))
       ELSE CycleValuesUpTo(cycles, epochValues, n - 1)

\* the placeholder of key k
Placeholder(k) == "{{" \o k \o "}}"

\* the replacements keyed by the position of the value in `values` instead
\* of the number of the cycle
TextReplacements_ByValuePosition(cycles, epochValues) ==
  LET withEntries == {j \in DOMAIN cycles : HasEntries(cycles[j])}
      rank(j) == Cardinality({k \in withEntries : k <= j})
  IN [p \in {Placeholder("n")} \cup {Placeholder(ToString(rank(j))) : j \in withEntries} |->
        IF p = Placeholder("n") THEN Str(<<"<", "b", "r", ">">>)
        ELSE LET i == CHOOSE j \in withEntries : Placeholder(ToString(rank(j))) = p
             IN Localize(CycleValue(cycles[i], epochValues).entryName)]

\* textReplacements: 'n' and the 1-based number of every cycle with entries
TextReplacements(cycles, epochValues) ==
  [p \in {Placeholder("n")}
         \cup {Placeholder(ToString(i)) : i \in {j \in DOMAIN cycles : HasEntries(cycles[j])}} |->
     IF p = Placeholder("n") THEN Str(<<"<", "b", "r", ">">>)
     ELSE LET i == CHOOSE j \in DOMAIN cycles : Placeholder(ToString(j)) = p
          IN Localize(CycleValue(cycles[i], epochValues).entryName)]

\* text.replace(/\{\{key\}\}/g, value) for every key; a format is a
\* sequence of placeholders and literal characters
FormatCycleText(format, replacements) ==
  [i \in 1..Len(format) |->
     IF format[i] \in DOMAIN replacements THEN replacements[format[i]]
     ELSE Str(<<format[i]>>)]

\* this.cycleFormat || ''
CycleFormatOf(cal) == IF Has(cal, "cycleFormat") THEN cal.cycleFormat ELSE <<>>

\* getCycleValues(time) for time components
getCycleValues(cal, components, totalDays) ==
  IF ~Has(cal, "cycles") \/ Len(cal.cycles) = 0 THEN [text |-> <<>>, values |-> <<>>]
  ELSE LET displayYear == components.year + YearZero(cal)
           epochValues == getCycleEpochValues(cal, components, displayYear, totalDays)
       IN [text |-> FormatCycleText(CycleFormatOf(cal),
                                    TextReplacements(cal.cycles, epochValues)),
           values |-> CycleValuesUpTo(cal.cycles, epochValues, Len(cal.cycles))]

(***************************************************************************)
(* Specification SpecCycle: calendars of twelve months with one or two     *)
(* cycles, queried on every date of three years.                           *)
(***************************************************************************)
\* twelve months of two days, the second month one day longer in leap years
CycleMonths ==
  [i \in 1..12 |-> IF i = 2 THEN [days |-> 2, leapDays |-> 3] ELSE [days |-> 2]]

BasedOnChoices == {"year", "eraYear", "month", "monthDay", "day", "yearDay"}

EntryName(i) == <<"N">> \o NatToStr(i)

EntriesOf(n) == [i \in 1..n |-> [name |-> EntryName(i)]]

CycleLengths == {1, 2, 12}

CycleOffsets == {0, 5, -3}

CycleSizes == {0, 2, 3, 12}

CyclesNamed(nm) ==
  {[name |-> nm, length |-> l, offset |-> o, basedOn |-> b, entries |-> EntriesOf(n)] :
     l \in CycleLengths, o \in CycleOffsets, b \in BasedOnChoices, n \in CycleSizes}

CycleLists ==
  {<<>>}
  \cup {<<c>> : c \in CyclesNamed(<<"C", "1">>)}
  \cup {<<c, e>> : c \in {x \in CyclesNamed(<<"C", "1">>) :
                            x.basedOn = "month" /\ x.length = 1 /\ x.offset = 0},
                   e \in {x \in CyclesNamed(<<"C", "2">>) :
                            x.basedOn = "year" /\ x.offset = 0}}

CycleFormats == {<<"{{1}}", " ", "-", " ", "{{2}}", "{{n}}">>}

CycleCalendars ==
  {[months |-> [values |-> CycleMonths],
    leapYearConfig |-> [rule |-> "simple", interval |-> 4, start |-> 0],
    eras |-> <<[name |-> EraName(1), abbreviation |-> <<"A", "1">>, startYear |-> 2]>>,
    cycles |-> cs, cycleFormat |-> f] : cs \in CycleLists, f \in CycleFormats}
  \cup {[months |-> [values |-> CycleMonths], cycles |-> cs] :
          cs \in {x \in CycleLists : Len(x) = 2}}
  \cup {[months |-> [values |-> CycleMonths]]}

CycleYears == {-2, 0, 4}

TotalDays == {-5, 0, 7}

InitCycle ==
  /\ calendar \in CycleCalendars
  /\ pc = "idle"
  /\ call = NoCall
  /\ ret = NoRet

GetCycleValues ==
  /\ pc = "idle"
  /\ \E time \in Dates(calendar, CycleYears), totalDays \in TotalDays :
       /\ call' = [op |-> "getCycleValues", time |-> time, totalDays |-> totalDays]
       /\ ret' = getCycleValues(calendar, time, totalDays)
  /\ pc' = "returned"
  /\ UNCHANGED calendar

NextCycle == GetCycleValues \/ Return

SpecCycle == InitCycle /\ [][NextCycle]_vars

(***************************************************************************)
(* C20: a cycle with basedOn = 'month', length = 12, offset = 0 and 12     *)
(* entries.                                                                *)
(***************************************************************************)
\* a getCycleValues call on a calendar whose first cycle is driven by the
\* month, has offset 0 and 12 entries
IsMonthCycleCall ==
  /\ pc = "returned"
  /\ call.op = "getCycleValues"
  /\ Has(calendar, "cycles")
  /\ Len(calendar.cycles) >= 1
  /\ calendar.cycles[1].basedOn = "month"
  /\ calendar.cycles[1].offset = 0
  /\ Len(calendar.cycles[1].entries) = 12
  /\ call.time.month \in 0..11

\* C20 as stated: with length 12 the index equals the month
C20_IndexIsMonth ==
  (IsMonthCycleCall /\ calendar.cycles[1].length = 12) =>
    ret.values[1].index = call.time.month

\* C20: with length 12 an entry lasts twelve months, so the index is
\* floor(month / 12) = 0 for every month in 0..11; the index equals the
\* month when length = 1
C20_IndexIsMonthOverLength ==
  IsMonthCycleCall =>
    /\ calendar.cycles[1].length = 12 => ret.values[1].index = 0
    /\ calendar.cycles[1].length = 1 => ret.values[1].index = call.time.month
    /\ ret.values[1].entryName = EntryName(ret.values[1].index + 1)

\* month 7 with length 12: still the first entry
C20_Witness ==
  /\ IsMonthCycleCall
  /\ calendar.cycles[1].length = 12
  /\ call.time.month = 7
  /\ ret.values[1].index = 0
  /\ ret.values[1].entryName = EntryName(1)

(***************************************************************************)
(* Specification SpecCycleIndex: one cycle driven by the absolute day      *)
(* count, over every length, offset, number of entries and day count of    *)
(* the bounds, negative values included.                                   *)
(***************************************************************************)
MaxIndexLength == 4
MaxIndexOffset == 5
MaxIndexEntries == 4
MaxEpochDay == 12

IndexCycles ==
  {[name |-> <<"C", "1">>, length |-> l, offset |-> o, basedOn |-> "day",
    entries |-> EntriesOf(n)] :
     l \in 1..MaxIndexLength, o \in -MaxIndexOffset..MaxIndexOffset,
     n \in 1..MaxIndexEntries}

IndexCalendars ==
  {[months |-> [values |-> CycleMonths], cycles |-> <<c>>] : c \in IndexCycles}

EpochDays == -MaxEpochDay..MaxEpochDay

InitCycleIndex ==
  /\ calendar \in IndexCalendars
  /\ pc = "idle"
  /\ call = NoCall
  /\ ret = NoRet

\* getCycleValues on the first day of year 0, for every absolute day count
GetCycleValuesOfDay ==
  /\ pc = "idle"
  /\ \E totalDays \in EpochDays :
       LET time == [year |-> 0, month |-> 0, dayOfMonth |-> 0]
       IN /\ call' = [op |-> "getCycleValues", time |-> time, totalDays |-> totalDays]
          /\ ret' = getCycleValues(calendar, time, totalDays)
  /\ pc' = "returned"
  /\ UNCHANGED calendar

NextCycleIndex == GetCycleValuesOfDay \/ Return

SpecCycleIndex == InitCycleIndex /\ [][NextCycleIndex]_vars

\* a getCycleValues call on a calendar whose only cycle counts days
IsDayCycleCall ==
  /\ pc = "returned"
  /\ call.op = "getCycleValues"
  /\ Has(calendar, "cycles")
  /\ Len(calendar.cycles) = 1
  /\ calendar.cycles[1].basedOn = "day"
  /\ Len(calendar.cycles[1].entries) >= 1

\* (floor(e / length) + floor(offset / length)) mod n, non-negative
C21_Index(cycle, e) ==
  ((e \div cycle.length) + (cycle.offset \div cycle.length)) % Len(cycle.entries)

IsCycleValuesCall == pc = "returned" /\ call.op = "getCycleValues"

HasCycles == Has(calendar, "cycles") /\ Len(calendar.cycles) >= 1

\* the cycles that have entries, by their 1-based number
ResolvedCycles == {k \in DOMAIN calendar.cycles : HasEntries(calendar.cycles[k])}

\* the value returned for cycle number k: values holds one value for
\* every cycle that has entries, in definition order
ValueOfCycle(k) == ret.values[Cardinality({j \in ResolvedCycles : j <= k})]

LineBreak == Str(<<"<", "b", "r", ">">>)

CosScale == 10000
TicksPerHour == 2 * CosScale

\* Math.PI in units of 1 / CosScale
FixedPi == 31416

\* one more term of the series of the cosine: term * x^2 / (k (k + 1))
CosTerm(term, x, k) == (((((term * x) \div CosScale) * x) \div CosScale) \div (k * (k + 1)))

\* cos(x) for 0 <= x <= pi / 2, x and the result in units of 1 / CosScale
CosSeries(x) ==
  LET t1 == CosTerm(CosScale, x, 1)
      t2 == CosTerm(t1, x, 3)
      t3 == CosTerm(t2, x, 5)
      t4 == CosTerm(t3, x, 7)
      t5 == CosTerm(t4, x, 9)
  IN CosScale - t1 + t2 - t3 + t4 - t5

\* Math.cos(progress * Math.PI) for progress = num / den in [0, 1], with
\* cos(pi - y) = -cos(y); exact at progress 0 and 1 as Math.cos is
FixedCos(num, den) ==
  IF 2 * num > den THEN -CosSeries((FixedPi * (den - num)) \div den)
  ELSE CosSeries((FixedPi * num) \div den)

\* the arithmetic of JavaScript numbers: NaN propagates
NumAdd(a, b) == IF a.finite /\ b.finite THEN Finite(a.value + b.value) ELSE NonFinite
NumSub(a, b) == IF a.finite /\ b.finite THEN Finite(a.value - b.value) ELSE NonFinite
NumHalf(a) == IF a.finite THEN Finite(a.value \div 2) ELSE NonFinite

\* a / b as a fraction of ticks; x / 0 and NaN / x are not finite
NumDiv(a, b) ==
  IF a.finite /\ b.finite /\ b.value # 0
  THEN [finite |-> TRUE, num |-> a.value, den |-> b.value]
  ELSE [finite |-> FALSE, num |-> 0, den |-> 1]

\* this.days.hoursPerDay, in ticks
HoursPerDay(cal) == Finite(cal.days.hoursPerDay * TicksPerHour)

\* this.days.daysPerYear ?? 365
DaysPerYear(cal) == IF Has(cal.days, "daysPerYear") THEN cal.days.daysPerYear ELSE 365

\* the interpolation with the progress of the shortening half not turned
\* round: daysSinceSummer / daysWinterToSummer
DaylightProgress_FallingNotReversed(daysSinceWinter, daysBetweenSolstices, daysPerYear) ==
  IF daysSinceWinter <= daysBetweenSolstices
  THEN IF daysBetweenSolstices = 0 THEN [finite |-> FALSE, num |-> 0, den |-> 1]
       ELSE [finite |-> TRUE, num |-> daysSinceWinter, den |-> daysBetweenSolstices]
  ELSE [finite |-> TRUE,
        num |-> daysSinceWinter - daysBetweenSolstices,
        den |-> daysPerYear - daysBetweenSolstices]

\* progress: daysSinceWinter / daysBetweenSolstices while the days
\* lengthen (0 / 0 is NaN), 1 - daysSinceSummer / daysWinterToSummer after
DaylightProgress(daysSinceWinter, daysBetweenSolstices, daysPerYear) ==
  IF daysSinceWinter <= daysBetweenSolstices
  THEN IF daysBetweenSolstices = 0 THEN [finite |-> FALSE, num |-> 0, den |-> 1]
       ELSE [finite |-> TRUE, num |-> daysSinceWinter, den |-> daysBetweenSolstices]
  ELSE [finite |-> TRUE,
        num |-> (daysPerYear - daysBetweenSolstices)
                - (daysSinceWinter - daysBetweenSolstices),
        den |-> daysPerYear - daysBetweenSolstices]

\* _getDaylightHoursForDay(time) for time components, in ticks
getDaylightHoursForDay(cal, components) ==
  IF ~Has(cal, "daylight") \/ ~Has(cal.daylight, "enabled") \/ ~cal.daylight.enabled
  THEN NumHalf(HoursPerDay(cal))
  ELSE LET daysPerYear == DaysPerYear(cal)
           daysSinceWinter ==
             JsRem(dayOfYear(cal, components) - cal.daylight.winterSolstice + daysPerYear,
                   daysPerYear)
           daysBetweenSolstices ==
             JsRem(cal.daylight.summerSolstice - cal.daylight.winterSolstice + daysPerYear,
                   daysPerYear)
           progress == DaylightProgress(daysSinceWinter, daysBetweenSolstices, daysPerYear)
       IN IF ~progress.finite THEN NonFinite
          ELSE LET cosineProgress == (CosScale - FixedCos(progress.num, progress.den)) \div 2
               IN Finite(2 * (cal.daylight.shortestDay * CosScale
                              + (cal.daylight.longestDay - cal.daylight.shortestDay)
                                * cosineProgress))

\* sunrise(time): midday - daylightHrs / 2
sunrise(cal, components) ==
  NumSub(NumHalf(HoursPerDay(cal)), NumHalf(getDaylightHoursForDay(cal, components)))

\* sunset(time): midday + daylightHrs / 2
sunset(cal, components) ==
  NumAdd(NumHalf(HoursPerDay(cal)), NumHalf(getDaylightHoursForDay(cal, components)))

\* daylightHours(time)
daylightHours(cal, components) == NumSub(sunset(cal, components), sunrise(cal, components))

\* solarMidday(time)
solarMidday(cal, components) == NumHalf(NumAdd(sunrise(cal, components), sunset(cal, components)))

\* solarMidnight(time)
solarMidnight(cal, components) ==
  LET sunsetHour == sunset(cal, components)
      nightHours == NumSub(HoursPerDay(cal), daylightHours(cal, components))
  IN NumAdd(sunsetHour, NumHalf(nightHours))

\* static hoursOfDay(time, calendar) for a time of whole seconds 0
hoursOfDay(cal, components) ==
  Finite(components.hour * TicksPerHour
         + (components.minute * TicksPerHour) \div cal.days.minutesPerHour)

\* progressDay(time)
progressDay(cal, components) ==
  NumDiv(NumSub(hoursOfDay(cal, components), sunrise(cal, components)),
         daylightHours(cal, components))

\* progressNight(time)
progressNight(cal, components) ==
  LET dayHours == daylightHours(cal, components)
      hour0 == hoursOfDay(cal, components)
      hour == IF dayHours.finite /\ hour0.value < dayHours.value
              THEN NumAdd(hour0, HoursPerDay(cal))
              ELSE hour0
  IN NumDiv(NumSub(hour, sunset(cal, components)), dayHours)

(***************************************************************************)
(* Specification SpecDaylight: calendars of eight or nine days a year in   *)
(* static and in dynamic mode, every pair of solstice days.                *)
(***************************************************************************)
\* four months of two days, the second one day longer in a leap year
DaylightMonths ==
  <<[days |-> 2], [days |-> 2, leapDays |-> 3], [days |-> 2], [days |-> 2]>>

DaylightDays == [hoursPerDay |-> 24, minutesPerHour |-> 60, secondsPerMinute |-> 60,
                 daysPerYear |-> 8]

DaylightConfigs ==
  {[enabled |-> e, shortestDay |-> sl[1], longestDay |-> sl[2],
    winterSolstice |-> w, summerSolstice |-> s] :
     e \in {TRUE}, sl \in {<<8, 16>>, <<10, 14>>}, w \in 0..7, s \in 0..7}
  \cup {[enabled |-> FALSE, shortestDay |-> 8, longestDay |-> 16,
         winterSolstice |-> 7, summerSolstice |-> 3]}

DaylightCalendars ==
  {[months |-> [values |-> DaylightMonths], days |-> DaylightDays,
    leapYearConfig |-> SeasonLeapConfig, daylight |-> c] : c \in DaylightConfigs}
  \cup {[months |-> [values |-> DaylightMonths], days |-> DaylightDays,
         leapYearConfig |-> SeasonLeapConfig]}

\* the times of day asked for: every whole hour
DayTimes(cal, years) ==
  {[year |-> dt.year, month |-> dt.month, dayOfMonth |-> dt.dayOfMonth,
    hour |-> h, minute |-> 0, second |-> 0] :
     dt \in Dates(cal, years), h \in 0..(cal.days.hoursPerDay - 1)}

\* the days asked for, at midnight
Midnights(cal, years) == {t \in DayTimes(cal, years) : t.hour = 0}

InitDaylight ==
  /\ calendar \in DaylightCalendars
  /\ pc = "idle"
  /\ call = NoCall
  /\ ret = NoRet

Sunrise ==
  /\ pc = "idle"
  /\ \E time \in Midnights(calendar, SeasonYears) :
       /\ call' = [op |-> "sunrise", time |-> time]
       /\ ret' = sunrise(calendar, time)
  /\ pc' = "returned"
  /\ UNCHANGED calendar

Sunset ==
  /\ pc = "idle"
  /\ \E time \in Midnights(calendar, SeasonYears) :
       /\ call' = [op |-> "sunset", time |-> time]
       /\ ret' = sunset(calendar, time)
  /\ pc' = "returned"
  /\ UNCHANGED calendar

DaylightHours ==
  /\ pc = "idle"
  /\ \E time \in Midnights(calendar, SeasonYears) :
       /\ call' = [op |-> "daylightHours", time |-> time]
       /\ ret' = daylightHours(calendar, time)
  /\ pc' = "returned"
  /\ UNCHANGED calendar

SolarMidday ==
  /\ pc = "idle"
  /\ \E time \in Midnights(calendar, SeasonYears) :
       /\ call' = [op |-> "solarMidday", time |-> time]
       /\ ret' = solarMidday(calendar, time)
  /\ pc' = "returned"
  /\ UNCHANGED calendar

SolarMidnight ==
  /\ pc = "idle"
  /\ \E time \in Midnights(calendar, SeasonYears) :
       /\ call' = [op |-> "solarMidnight", time |-> time]
       /\ ret' = solarMidnight(calendar, time)
  /\ pc' = "returned"
  /\ UNCHANGED calendar

ProgressDay ==
  /\ pc = "idle"
  /\ \E time \in DayTimes(calendar, SeasonYears) :
       /\ call' = [op |-> "progressDay", time |-> time]
       /\ ret' = progressDay(calendar, time)
  /\ pc' = "returned"
  /\ UNCHANGED calendar

ProgressNight ==
  /\ pc = "idle"
  /\ \E time \in DayTimes(calendar, SeasonYears) :
       /\ call' = [op |-> "progressNight", time |-> time]
       /\ ret' = progressNight(calendar, time)
  /\ pc' = "returned"
  /\ UNCHANGED calendar

NextDaylight ==
  \/ Sunrise \/ Sunset \/ DaylightHours \/ SolarMidday \/ SolarMidnight
  \/ ProgressDay \/ ProgressNight \/ Return

SpecDaylight == InitDaylight /\ [][NextDaylight]_vars

(***************************************************************************)
(* Claims about daylight.                                                  *)
(***************************************************************************)
IsDaylightCall(op) == pc = "returned" /\ call.op = op

\* static mode: no daylight configuration, or one that is not enabled
StaticMode == ~Has(calendar, "daylight") \/ ~calendar.daylight.enabled

\* a number of hours times num / den, in ticks
DayFraction(num, den) == Finite((calendar.days.hoursPerDay * TicksPerHour * num) \div den)

\* C23: on every day of every calendar, in static and in dynamic mode,
\* sunrise + sunset = hoursPerDay, solarMidday = hoursPerDay / 2 and
\* solarMidnight = sunset + (hoursPerDay - daylightHours) / 2 = hoursPerDay;
\* in static mode daylightHours is half the day, sunrise is at a quarter and
\* sunset at three quarters of the day.
C23_SunriseSunsetSymmetry ==
  /\ IsDaylightCall("sunrise") =>
       /\ NumAdd(ret, sunset(calendar, call.time)) = DayFraction(1, 1)
       /\ StaticMode => ret = DayFraction(1, 4)
  /\ IsDaylightCall("sunset") =>
       /\ NumAdd(sunrise(calendar, call.time), ret) = DayFraction(1, 1)
       /\ StaticMode => ret = DayFraction(3, 4)
  /\ IsDaylightCall("daylightHours") => (StaticMode => ret = DayFraction(1, 2))
  /\ IsDaylightCall("solarMidday") => ret = DayFraction(1, 2)
  /\ IsDaylightCall("solarMidnight") =>
       /\ ret = DayFraction(1, 1)
       /\ ret = NumAdd(sunset(calendar, call.time),
                       NumHalf(NumSub(DayFraction(1, 1), daylightHours(calendar, call.time))))

\* the solstices of the calendar in use fall on different days
DistinctSolstices ==
  StaticMode \/ calendar.daylight.winterSolstice # calendar.daylight.summerSolstice

\* the identities of C23 hold in static mode and whenever the two
\* solstices are different days
C23_SymmetryWithDistinctSolstices == DistinctSolstices => C23_SunriseSunsetSymmetry


\* dynamic mode with the two solstices on different days of the year
DynamicDistinct ==
  /\ ~StaticMode
  /\ calendar.daylight.winterSolstice # calendar.daylight.summerSolstice
  /\ calendar.daylight.winterSolstice < DaysPerYear(calendar)
  /\ calendar.daylight.summerSolstice < DaysPerYear(calendar)

\* the daylight hours of the day of the year d, 0-indexed
DaylightOn(d) ==
  daylightHours(calendar, [year |-> 3, month |-> 0, dayOfMonth |-> d])

\* days from the winter solstice to the day of the year d, going forward
DaysAfterWinter(d) ==
  JsRem(d - calendar.daylight.winterSolstice + DaysPerYear(calendar), DaysPerYear(calendar))

\* days from the winter solstice to the summer solstice, going forward
WinterToSummer == DaysAfterWinter(calendar.daylight.summerSolstice)

\* C24: in dynamic mode with distinct solstices, daylightHours is
\* shortestDay on the winter-solstice day and longestDay on the
\* summer-solstice day, does not decrease from one day to the next between
\* the winter and the summer solstice, does not increase from one day to the
\* next between the summer and the winter solstice, and always lies between
\* shortestDay and longestDay.  The day of the year is the one the method
\* computes for the date.
C24_DaylightCurve ==
  (IsDaylightCall("daylightHours") /\ DynamicDistinct) =>
    LET d == dayOfYear(calendar, call.time)
        next == JsRem(d + 1, DaysPerYear(calendar))
        shortest == Finite(calendar.daylight.shortestDay * TicksPerHour)
        longest == Finite(calendar.daylight.longestDay * TicksPerHour)
    IN /\ ret.finite
       /\ d = calendar.daylight.winterSolstice => ret = shortest
       /\ d = calendar.daylight.summerSolstice => ret = longest
       /\ shortest.value <= ret.value /\ ret.value <= longest.value
       /\ DaysAfterWinter(d) < WinterToSummer => ret.value <= DaylightOn(next).value
       /\ DaysAfterWinter(d) >= WinterToSummer => ret.value >= DaylightOn(next).value

\* a day strictly between the winter and the summer solstice, in a leap
\* year after the leap day, with daylight hours strictly between the bounds
\* and strictly fewer than on the next day
C24_Witness ==
  /\ IsDaylightCall("daylightHours") /\ DynamicDistinct
  /\ call.time.year = 4 /\ call.time.month = 2
  /\ calendar.daylight.winterSolstice = 7
  /\ calendar.daylight.summerSolstice = 6
  /\ calendar.daylight.shortestDay = 8
  /\ DaysAfterWinter(dayOfYear(calendar, call.time)) < WinterToSummer
  /\ ret.value > 8 * TicksPerHour /\ ret.value < 16 * TicksPerHour
  /\ ret.value < DaylightOn(dayOfYear(calendar, call.time) + 1).value


\* a finite fraction num / den with a positive denominator lies in [0, 1]
InUnitInterval(q) == q.finite /\ q.den > 0 /\ 0 <= q.num /\ q.num <= q.den

\* the hour of the call lies between sunrise and sunset of its day
IsDaytime ==
  /\ sunrise(calendar, call.time).value <= hoursOfDay(calendar, call.time).value
  /\ hoursOfDay(calendar, call.time).value <= sunset(calendar, call.time).value

\* the hour of the call lies between sunset and the next sunrise
IsNighttime ==
  \/ hoursOfDay(calendar, call.time).value >= sunset(calendar, call.time).value
  \/ hoursOfDay(calendar, call.time).value <= sunrise(calendar, call.time).value

\* C25: in static and in dynamic mode progressDay lies in [0, 1] for every
\* hour between sunrise and sunset, 0 at sunrise and 1 at sunset, and
\* progressNight lies in [0, 1] for every hour between sunset and the next
\* sunrise, 0 at sunset and 1 at sunrise.  Stated for calendars whose
\* daylight hours are a number (static mode or distinct solstices).
C25_ProgressInUnitInterval ==
  /\ (IsDaylightCall("progressDay") /\ DistinctSolstices /\ IsDaytime) =>
       /\ InUnitInterval(ret)
       /\ hoursOfDay(calendar, call.time) = sunrise(calendar, call.time) => ret.num = 0
       /\ hoursOfDay(calendar, call.time) = sunset(calendar, call.time) => ret.num = ret.den
  /\ (IsDaylightCall("progressNight") /\ DistinctSolstices /\ IsNighttime) =>
       /\ InUnitInterval(ret)
       /\ hoursOfDay(calendar, call.time) = sunset(calendar, call.time) => ret.num = 0
       /\ hoursOfDay(calendar, call.time) = sunrise(calendar, call.time) => ret.num = ret.den

\* the part of C25 that the code keeps: progressDay in both modes, and
\* progressNight in static mode
C25_ProgressDayAndStaticNight ==
  /\ (IsDaylightCall("progressDay") /\ DistinctSolstices /\ IsDaytime) =>
       /\ InUnitInterval(ret)
       /\ hoursOfDay(calendar, call.time) = sunrise(calendar, call.time) => ret.num = 0
       /\ hoursOfDay(calendar, call.time) = sunset(calendar, call.time) => ret.num = ret.den
  /\ (IsDaylightCall("progressNight") /\ StaticMode /\ IsNighttime) =>
       /\ InUnitInterval(ret)
       /\ hoursOfDay(calendar, call.time) = sunset(calendar, call.time) => ret.num = 0
       /\ hoursOfDay(calendar, call.time) = sunrise(calendar, call.time) => ret.num = ret.den


(***************************************************************************)
(* Specification SpecResolver: every resolver query on one calendar that   *)
(* carries a leap rule, months, a moon, seasons, eras, a cycle and a       *)
(* daylight configuration.  A query may be invoked a second time with the  *)
(* same point in time before its result is taken.  Each step records what  *)
(* the query leaves in the calendar and in the time components it was      *)
(* given.                                                                  *)
(***************************************************************************)
\* this.eras after the eras were sorted in place
ErasLeftBySort_InPlace(eras) == SortedEras(eras)

\* this.eras after getCurrentEra: [...this.eras].sort(...) sorts a copy
ErasLeftBySort(eras) == eras

\* the calendar as getCurrentEra leaves it
CalendarAfterGetCurrentEra(cal) ==
  IF ~Has(cal, "eras") \/ Len(cal.eras) = 0 THEN cal
  ELSE [cal EXCEPT !.eras = ErasLeftBySort(@)]

\* the calendar as a query leaves it: no query assigns to a field of the
\* calendar; getCurrentEra, and formatYearWithEra and getCycleValues
\* (when there are cycles) through it, sort the eras
CalendarAfter(op, cal) ==
  IF op \in {"getCurrentEra", "formatYearWithEra"} THEN CalendarAfterGetCurrentEra(cal)
  ELSE IF op = "getCycleValues" /\ Has(cal, "cycles") /\ Len(cal.cycles) > 0
       THEN CalendarAfterGetCurrentEra(cal)
  ELSE cal

\* the time components as a query leaves them: they are only read
ComponentsAfter(op, components) == components

\* the result of query op at a point in time: time components and the day
\* count that goes with them
Resolve(op, cal, point) ==
  CASE op = "isLeapYear" -> [value |-> CalendariaCalendar_isLeapYear(cal, point.time.year)]
    [] op = "getDaysInMonth" ->
         [value |-> getDaysInMonth(cal, point.time.month, point.time.year)]
    [] op = "getMoonPhase" -> [value |-> getMoonPhase(cal, 0, Finite(point.totalDays))]
    [] op = "getCurrentSeason" -> [value |-> getCurrentSeason(cal, point.time)]
    [] op = "getCurrentEra" -> [value |-> getCurrentEra(cal, point.time)]
    [] op = "formatYearWithEra" ->
         [value |-> formatYearWithEra(cal, point.time.year + YearZero(cal))]
    [] op = "getCycleValues" -> [value |-> getCycleValues(cal, point.time, point.totalDays)]
    [] op = "sunrise" -> [value |-> sunrise(cal, point.time)]
    [] op = "sunset" -> [value |-> sunset(cal, point.time)]

ResolverOps ==
  {"isLeapYear", "getDaysInMonth", "getMoonPhase", "getCurrentSeason", "getCurrentEra",
   "formatYearWithEra", "getCycleValues", "sunrise", "sunset"}

\* eras declared in ascending, in descending and in mixed order of startYear
ResolverEraLists ==
  {<<>>,
   <<[name |-> EraName(1), abbreviation |-> <<"A", "1">>, startYear |-> 1],
     [name |-> EraName(2), abbreviation |-> <<"A", "2">>, startYear |-> 4]>>,
   <<[name |-> EraName(1), abbreviation |-> <<"A", "1">>, startYear |-> 4],
     [name |-> EraName(2), abbreviation |-> <<"A", "2">>, startYear |-> 1]>>,
   <<[name |-> EraName(1), abbreviation |-> <<"A", "1">>, startYear |-> 3, endYear |-> 4],
     [name |-> EraName(2), abbreviation |-> <<"A", "2">>, startYear |-> 5],
     [name |-> EraName(3), abbreviation |-> <<"A", "3">>, startYear |-> 3],
     [name |-> EraName(4), abbreviation |-> <<"A", "4">>, startYear |-> 4]>>}

ResolverSeasons ==
  <<[name |-> <<"S", "1">>, monthStart |-> 1, monthEnd |-> 2],
    [name |-> <<"S", "2">>, dayStart |-> 4, dayEnd |-> 7]>>

ResolverMoon ==
  [name |-> <<"M">>, cycleLength |-> 5, cycleDayAdjust |-> 1, phases |-> PhasesOf(3)]

ResolverCycle ==
  [name |-> <<"C", "1">>, length |-> 2, offset |-> 1, basedOn |-> "eraYear",
   entries |-> EntriesOf(3)]

ResolverCalendars ==
  {[months |-> [values |-> DaylightMonths],
    leapYearConfig |-> SeasonLeapConfig,
    years |-> [yearZero |-> z],
    days |-> DaylightDays,
    daylight |-> [enabled |-> e, shortestDay |-> 8, longestDay |-> 16,
                  winterSolstice |-> 7, summerSolstice |-> 3],
    moons |-> <<ResolverMoon>>,
    seasons |-> [values |-> ResolverSeasons],
    eras |-> es,
    cycles |-> <<ResolverCycle>>,
    cycleFormat |-> <<"{{1}}", "{{n}}">>] :
     z \in {0, 1}, e \in BOOLEAN, es \in ResolverEraLists}

\* the points in time asked for
ResolverPoints(cal) ==
  {[time |-> t, totalDays |-> n] : t \in Dates(cal, SeasonYears), n \in {-5, 7}}

InitResolver ==
  /\ calendar \in ResolverCalendars
  /\ pc = "idle"
  /\ call = NoCall
  /\ ret = NoRet

\* one invocation of query op
Invoke(op) ==
  /\ \E point \in ResolverPoints(calendar) :
       /\ call' = [op |-> op, point |-> point,
                   pointAfter |-> [point EXCEPT !.time = ComponentsAfter(op, @)]]
       /\ ret' = Resolve(op, calendar, point)
  /\ calendar' = CalendarAfter(op, calendar)
  /\ pc' = "returned"

QueryIsLeapYear ==
  /\ pc = "idle"
  /\ Invoke("isLeapYear")

QueryDaysInMonth ==
  /\ pc = "idle"
  /\ Invoke("getDaysInMonth")

QueryMoonPhase ==
  /\ pc = "idle"
  /\ Invoke("getMoonPhase")

QueryCurrentSeason ==
  /\ pc = "idle"
  /\ Invoke("getCurrentSeason")

QueryCurrentEra ==
  /\ pc = "idle"
  /\ Invoke("getCurrentEra")

QueryFormatYearWithEra ==
  /\ pc = "idle"
  /\ Invoke("formatYearWithEra")

QueryCycleValues ==
  /\ pc = "idle"
  /\ Invoke("getCycleValues")

QuerySunrise ==
  /\ pc = "idle"
  /\ Invoke("sunrise")

QuerySunset ==
  /\ pc = "idle"
  /\ Invoke("sunset")

\* the same query invoked again with the components the first invocation
\* left, on the calendar the first invocation left
InvokeAgain ==
  /\ pc = "returned"
  /\ call' = [call EXCEPT !.pointAfter.time = ComponentsAfter(call.op, @)]
  /\ ret' = [first |-> ret, second |-> Resolve(call.op, calendar, call.pointAfter)]
  /\ calendar' = CalendarAfter(call.op, calendar)
  /\ pc' = "repeated"

\* the caller takes the result
TakeResult ==
  /\ pc \in {"returned", "repeated"}
  /\ pc' = "idle"
  /\ call' = NoCall
  /\ ret' = NoRet
  /\ UNCHANGED calendar

NextResolver ==
  \/ QueryIsLeapYear \/ QueryDaysInMonth \/ QueryMoonPhase \/ QueryCurrentSeason
  \/ QueryCurrentEra \/ QueryFormatYearWithEra \/ QueryCycleValues
  \/ QuerySunrise \/ QuerySunset \/ InvokeAgain \/ TakeResult

SpecResolver == InitResolver /\ [][NextResolver]_vars

NumberOr(components, f, dflt) ==
  IF Has(components, f) /\ components[f] # Null /\ components[f].value # 0
  THEN components[f].value
  ELSE dflt

\* the normalisation that prefers the user-facing day
NormalDayOfMonth_DayFirst(components) ==
  IF Has(components, "day") /\ components.day # Null
  THEN NumberOr(components, "day", 1) - 1
  ELSE IF Has(components, "dayOfMonth") /\ components.dayOfMonth # Null
       THEN components.dayOfMonth.value
       ELSE 0

\* components.dayOfMonth ?? (Number(components.day) || 1) - 1
NormalDayOfMonth(components) ==
  IF Has(components, "dayOfMonth") /\ components.dayOfMonth # Null
  THEN components.dayOfMonth.value
  ELSE NumberOr(components, "day", 1) - 1

\* for (i < month && i < monthDays.length) dayOfYear += monthDays[i]?.days || 30
RECURSIVE SumDaysOr30(_, _)
SumDaysOr30(monthDays, month) ==
  IF month <= 0 THEN 0
  ELSE SumDaysOr30(monthDays, month - 1)
       + (IF month > Len(monthDays) THEN 0
          ELSE IF Has(monthDays[month], "days") /\ monthDays[month].days # 0
               THEN monthDays[month].days
               ELSE 30)

\* (this.days?.hoursPerDay || 24) * (this.days?.minutesPerHour || 60) *
\* (this.days?.secondsPerMinute || 60)
SecondsPerDay(cal) ==
  LET DaysOr(f, dflt) == IF Has(cal, "days") /\ Has(cal.days, f) /\ cal.days[f] # 0
                         THEN cal.days[f] ELSE dflt
  IN DaysOr("hoursPerDay", 24) * DaysOr("minutesPerHour", 60) * DaysOr("secondsPerMinute", 60)

\* this.componentsToTime(normalized) of the base calendar class, for a
\* calendar whose years all have days.daysPerYear days: the seconds from
\* the start of year 0 to the given second of day `day` of the year
componentsToTime(cal, normalized) ==
  (normalized.year * cal.days.daysPerYear + normalized.day) * SecondsPerDay(cal)
  + (normalized.hour * cal.days.minutesPerHour + normalized.minute)
    * cal.days.secondsPerMinute
  + normalized.second

\* Math.floor(a / b) for b > 0
FloorDiv(a, b) == a \div b

\* _componentsToDays(components); components is Null or a record
componentsToDays(cal, components) ==
  IF components = Null THEN 0
  ELSE LET year == NumberOr(components, "year", 0)
           month == NumberOr(components, "month", 0)
           dayOfMonth == NormalDayOfMonth(components)
           monthDays == MonthValues(cal)
           normalized == [year |-> year,
                          day |-> dayOfMonth + SumDaysOr30(monthDays, month),
                          hour |-> NumberOr(components, "hour", 0),
                          minute |-> NumberOr(components, "minute", 0),
                          second |-> NumberOr(components, "second", 0)]
       IN FloorDiv(componentsToTime(cal, normalized), SecondsPerDay(cal))

(***************************************************************************)
(* Specification SpecComponents: _componentsToDays on dates given with     *)
(* day, with dayOfMonth, with both and with neither.                       *)
(***************************************************************************)
\* the records with no field and with the one field f
Optional(f, values) == {[k \in {} |-> Null]} \cup {[k \in {f} |-> v] : v \in values}

MaxComponentDay == 3

ComponentInputs ==
  {y @@ m @@ dm @@ dd @@ h :
     y \in Optional("year", {JsNum(0), JsNum(2)}),
     m \in Optional("month", {JsNum(0), JsNum(1), JsNum(2)}),
     dm \in Optional("dayOfMonth", {Null} \cup {JsNum(n) : n \in 0..(MaxComponentDay - 1)}),
     dd \in Optional("day", {Null} \cup {JsNum(n) : n \in 0..MaxComponentDay}),
     h \in Optional("hour", {JsNum(23)})}

ComponentCalendars ==
  {[months |-> [values |-> <<[days |-> 3], [days |-> 2], [days |-> 3]>>],
    days |-> [hoursPerDay |-> 24, minutesPerHour |-> 60, secondsPerMinute |-> 60,
              daysPerYear |-> 8]],
   [days |-> [hoursPerDay |-> 24, minutesPerHour |-> 60, secondsPerMinute |-> 60,
              daysPerYear |-> 8]]}

InitComponents ==
  /\ calendar \in ComponentCalendars
  /\ pc = "idle"
  /\ call = NoCall
  /\ ret = NoRet

ComponentsToDays ==
  /\ pc = "idle"
  /\ \E components \in ComponentInputs \cup {Null} :
       /\ call' = [op |-> "componentsToDays", components |-> components]
       /\ ret' = [value |-> componentsToDays(calendar, components)]
  /\ pc' = "returned"
  /\ UNCHANGED calendar

NextComponents == ComponentsToDays \/ Return

SpecComponents == InitComponents /\ [][NextComponents]_vars


\* a _componentsToDays call on date components
IsComponentsCall ==
  pc = "returned" /\ call.op = "componentsToDays" /\ call.components # Null

\* component f is given as a number
Given(components, f) == Has(components, f) /\ components[f] # Null

\* the components without field f
Without(components, f) == [k \in DOMAIN components \ {f} |-> components[k]]

\* the internal, 0-indexed day of the month the components denote:
\* dayOfMonth when given, else day - 1, else the first day
InternalDay(components) ==
  IF Given(components, "dayOfMonth") THEN components.dayOfMonth.value
  ELSE IF Given(components, "day") THEN components.day.value - 1
  ELSE 0

\* the same date written with the internal day only, and with the
\* external, 1-indexed day only
InternalForm(components) ==
  Without(Without(components, "day"), "dayOfMonth")
  @@ [k \in {"dayOfMonth"} |-> JsNum(InternalDay(components))]

ExternalForm(components) ==
  Without(Without(components, "day"), "dayOfMonth")
  @@ [k \in {"day"} |-> JsNum(InternalDay(components) + 1)]

\* the day, if it is the one that counts, is a 1-indexed day
DayIsOneIndexed(components) ==
  Given(components, "dayOfMonth") \/ ~Given(components, "day") \/ components.day.value >= 1

\* the days before the month of the components, in the year of the components
DaysBeforeMonth(cal, components) ==
  LET month == IF Given(components, "month") THEN components.month.value ELSE 0
      year == IF Given(components, "year") THEN components.year.value ELSE 0
  IN year * cal.days.daysPerYear
     + (IF Has(cal, "months") THEN SumMonthDays(cal.months.values, month) ELSE 0)

\* C27: the day count of date components uses dayOfMonth as it is when it
\* is given, also when day is given too, otherwise day - 1 for a 1-indexed
\* day, and the first day of the month when day is missing or null; the
\* date written with day = d and the date written with dayOfMonth = d - 1
\* give the same day count, and writing the internal day as an external
\* day and converting again gives the same day count.
C27_DayNormalisation ==
  (IsComponentsCall /\ DayIsOneIndexed(call.components)) =>
    /\ ret.value = DaysBeforeMonth(calendar, call.components) + InternalDay(call.components)
    /\ ret.value = componentsToDays(calendar, InternalForm(call.components))
    /\ ret.value = componentsToDays(calendar, ExternalForm(call.components))

\* day 3 and dayOfMonth 0 are both given, in the second month
C27_Witness ==
  /\ IsComponentsCall
  /\ Has(calendar, "months")
  /\ Given(call.components, "day") /\ call.components.day = JsNum(3)
  /\ Given(call.components, "dayOfMonth") /\ call.components.dayOfMonth = JsNum(0)
  /\ Given(call.components, "month") /\ call.components.month = JsNum(1)
  /\ ~Has(call.components, "year")
  /\ ret.value = 3


(***************************************************************************)
(* jumpToDate: the current date is game.time.components of the host        *)
(* application: year (without yearZero), month and dayOfMonth, 0-indexed.  *)
(***************************************************************************)
\* day ??= components.dayOfMonth
JumpDay(args, components) ==
  IF Has(args, "day") THEN args.day ELSE components.dayOfMonth

\* for (idx < month) dayOfYear += leapYear ? (m.leapDays ?? m.days) : m.days
RECURSIVE SumJumpDays(_, _, _)
SumJumpDays(months, month, leapYear) ==
  IF month <= 0 THEN 0
  ELSE SumJumpDays(months, month - 1, leapYear)
       + (IF leapYear /\ Has(months[month], "leapDays") THEN months[month].leapDays
          ELSE months[month].days)

\* the components jumpToDate hands to game.time.set: year without
\* yearZero, month, and day as the 0-indexed day of the year
jumpToDate(cal, components, args) ==
  LET year == IF Has(args, "year") THEN args.year ELSE components.year + cal.years.yearZero
      month == IF Has(args, "month") THEN args.month ELSE components.month
      day == JumpDay(args, components)
      leapYear == CalendariaCalendar_isLeapYear(cal, year)
      yearDay == (day - 1) + SumJumpDays(cal.months.values, month, leapYear)
  IN [year |-> year - cal.years.yearZero, month |-> month, day |-> yearDay,
      dayOfMonth |-> components.dayOfMonth]

\* the month and day of the month of day dayOfYear of a year, counting
\* through the months from month m (0-indexed) on
RECURSIVE MonthAndDay(_, _, _, _)
MonthAndDay(cal, displayYear, m, dayOfYearLeft) ==
  IF m + 1 >= Len(cal.months.values) \/ dayOfYearLeft < getDaysInMonth(cal, m, displayYear)
  THEN [month |-> m, dayOfMonth |-> dayOfYearLeft]
  ELSE MonthAndDay(cal, displayYear, m + 1,
                   dayOfYearLeft - getDaysInMonth(cal, m, displayYear))

\* game.time.components after game.time.set(components): the date that
\* year and day of the year denote; the day before the first day of a
\* year is the last day of the year before
dateAfterSet(cal, set) ==
  LET before == set.day < 0
      year == IF before THEN set.year - 1 ELSE set.year
      displayYear == year + cal.years.yearZero
      day == IF before THEN set.day + getDaysInYear(cal, displayYear) ELSE set.day
      md == MonthAndDay(cal, displayYear, 0, day)
  IN [year |-> year, month |-> md.month, dayOfMonth |-> md.dayOfMonth]

(***************************************************************************)
(* Specification SpecJump: jumpToDate from every date of a common and a    *)
(* leap year, with year, month and day given or omitted.                   *)
(***************************************************************************)
JumpCalendars ==
  {[months |-> [values |-> DaylightMonths], leapYearConfig |-> SeasonLeapConfig,
    years |-> [yearZero |-> z]] : z \in {0, 1}}

\* the current dates: every date of the display years SeasonYears
CurrentDates(cal) ==
  {[year |-> dt.year - cal.years.yearZero, month |-> dt.month, dayOfMonth |-> dt.dayOfMonth] :
     dt \in Dates(cal, SeasonYears)}

\* the argument of jumpToDate: display year, month index and 1-indexed day,
\* each given or omitted
JumpArgs ==
  {y @@ m @@ dd :
     y \in {[k \in {} |-> 0]} \cup {[k \in {"year"} |-> v] : v \in SeasonYears},
     m \in {[k \in {} |-> 0]} \cup {[k \in {"month"} |-> v] : v \in 0..3},
     dd \in {[k \in {} |-> 0]} \cup {[k \in {"day"} |-> v] : v \in 1..2}}

InitJump ==
  /\ calendar \in JumpCalendars
  /\ pc = "idle"
  /\ call = NoCall
  /\ ret = NoRet

JumpToDate ==
  /\ pc = "idle"
  /\ \E components \in CurrentDates(calendar), args \in JumpArgs :
       /\ call' = [op |-> "jumpToDate", components |-> components, args |-> args]
       /\ ret' = [set |-> jumpToDate(calendar, components, args),
                  components |-> dateAfterSet(calendar, jumpToDate(calendar, components, args))]
  /\ pc' = "returned"
  /\ UNCHANGED calendar

NextJump == JumpToDate \/ Return

SpecJump == InitJump /\ [][NextJump]_vars

IsJumpCall == pc = "returned" /\ call.op = "jumpToDate"

\* C28: jumpToDate leaves every value that is not provided the same: the
\* day of the month, the month and the display year after the jump are
\* those of the current date when day, month or year is omitted.
C28_OmittedValuesKept ==
  IsJumpCall =>
    /\ ~Has(call.args, "day") => ret.components.dayOfMonth = call.components.dayOfMonth
    /\ ~Has(call.args, "month") => ret.components.month = call.components.month
    /\ ~Has(call.args, "year") => ret.components.year = call.components.year

(***************************************************************************)
(* Specification SpecMoonDays: the phase of a moon observed on consecutive *)
(* days.  The observed day is the count of days since the moon's reference *)
(* date.                                                                   *)
(***************************************************************************)
MaxMoonDay == 18

DailyMoons ==
  {[name |-> <<"M">>, cycleLength |-> l, cycleDayAdjust |-> a, phases |-> PhasesOf(n)] :
     l \in 0..MaxMoonCycle, a \in {-3, 0, 5}, n \in {0, 1, 2, 3, 5, 8, 9}}
  \cup {[name |-> <<"M">>, cycleLength |-> 30, phases |-> PhasesOf(8)]}

DailyMoonCalendars ==
  {[months |-> [values |-> <<[days |-> 30]>>], moons |-> <<m>>] : m \in DailyMoons}

InitMoonDays ==
  /\ calendar \in DailyMoonCalendars
  /\ pc = "idle"
  /\ call = NoCall
  /\ ret = NoRet

\* getMoonPhase(0, time) for a first date
ObserveMoon ==
  /\ pc = "idle"
  /\ \E d \in {-MaxMoonDay, 0} :
       /\ call' = [op |-> "getMoonPhase", moonIndex |-> 0,
                   daysSinceReference |-> d, finite |-> TRUE]
       /\ ret' = getMoonPhase(calendar, 0, Finite(d))
  /\ pc' = "returned"
  /\ UNCHANGED calendar

\* the date advances by one day and getMoonPhase(0, time) is asked again
AdvanceDay ==
  /\ pc = "returned"
  /\ call.daysSinceReference < MaxMoonDay
  /\ call' = [call EXCEPT !.daysSinceReference = @ + 1]
  /\ ret' = getMoonPhase(calendar, 0, Finite(call.daysSinceReference + 1))
  /\ pc' = "returned"
  /\ UNCHANGED calendar

NextMoonDays == ObserveMoon \/ AdvanceDay \/ Return

SpecMoonDays == InitMoonDays /\ [][NextMoonDays]_vars

\* the moon has a positive cycle length and at least one phase
RegularMoon ==
  /\ calendar.moons[1].cycleLength >= 1
  /\ Has(calendar.moons[1], "phases")
  /\ Len(calendar.moons[1].phases) >= 1

SingleMonthBounded(s) ==
  /\ IsMonthRange(s)
  /\ s.monthStart = s.monthEnd
  /\ Has(s, "dayStart") # Has(s, "dayEnd")

\* the 1-indexed day of the month of the date lies within the day bounds of
\* season s: dayStart, by default 1, to dayEnd, by default the last day of
\* the month
InDayBounds(cal, s, time) ==
  LET day == time.dayOfMonth + 1
      startDay == IF Has(s, "dayStart") THEN s.dayStart ELSE 1
      endDay == IF Has(s, "dayEnd") THEN s.dayEnd
                ELSE getDaysInMonth(cal, time.month, time.year)
  IN startDay <= day /\ day <= endDay

\* C30: a season confined to the single month m with a dayStart or a dayEnd
\* bound does not match a date of month m whose day of the month is outside
\* the bounds: listed before a day-range season that holds the date, it
\* leaves the date to that later season.
C30_SingleMonthDayBounds ==
  (/\ IsSeasonCall
   /\ Len(Seasons) = 2
   /\ SingleMonthBounded(Seasons[1])
   /\ call.time.month + 1 = Seasons[1].monthStart
   /\ ~InDayBounds(calendar, Seasons[1], call.time)
   /\ IsDayRange(Seasons[2])
   /\ C13_Rule(Seasons[2], dayOfYear(calendar, call.time)))
  => ret = Seasons[2]

====
